---- MODULE Spec2Model ----
(***************************************************************************)
(* Arabic OCR export: the Arabic shaping table and shaper, the text        *)
(* sanitizer and the pdf-lib fallback line wrapper of the PDF exporter.    *)
(* Codepoints are numbers (U+0628 is 1576); a string is a sequence of      *)
(* codepoints.                                                             *)
(***************************************************************************)
EXTENDS Integers, Sequences, FiniteSets, TLC

VARIABLES
  pc,      \* position of the running function
  raw,     \* sanitizeArabicText: input of the first call
  text,    \* sanitizeArabicText: value returned by the first call
  again,   \* sanitizeArabicText: value returned by the call on text
  chars,   \* shapeArabicText: Array.from(input)
  i,       \* shapeArabicText: loop index (1-based)
  out,     \* shapeArabicText: out[]
  lineOut, \* shapeArabicLine: the string returned
  embeddedFont, \* exportPdf: whether the Arabic font was embedded
  content, \* exportPdf: the content, as words and line feeds
  linesRaw,\* exportPdf: linesRaw, each raw line a sequence of words
  rawIdx,  \* exportPdf: index of the raw line of the wrapping loop
  wordIdx, \* exportPdf: index of the word of the inner loop
  current, \* exportPdf: current, the line being filled
  wrapped, \* exportPdf: wrapped, the lines to draw
  origin,  \* for each line pushed (exportPdf) or drawn (generatePdfWithJsPdf), the
           \* index of the raw line or paragraph it came from
  lineIdx, \* exportPdf: index of the line of the drawing loop
  y,       \* exportPdf: the vertical cursor
  pageNo,  \* exportPdf: number of pages added so far
  placed,  \* what each pass of a drawing loop handed to drawText or doc.text
  paragraphs, \* generatePdfWithJsPdf: paragraphs, each a sequence of words
  paraIdx, \* generatePdfWithJsPdf: index of the paragraph of the outer loop
  words,   \* generatePdfWithJsPdf: words of the shaped paragraph
  lines,   \* generatePdfWithJsPdf: lines of the paragraph
  geometry,\* the drawing loop on its own: line height, page height, margin and
           \* number of lines
  pgIdx,   \* the drawing loop on its own: index of the line
  pgY,     \* the drawing loop on its own: the vertical cursor
  pgPage,  \* the drawing loop on its own: number of pages so far
  pgPlaced,\* the drawing loop on its own: cursor and page of each line drawn
  calls,   \* a run of calls one after the other: the calls that have returned
  seen,    \* a run of calls: the inputs and results of the calls that have returned
  fontFile,\* a PDF generator: the font file of its font path: none, one that loads, one
           \* that does not
  fontCss, \* exportPdf, browser path: whether the font went into the page as @font-face
  browserOpen, \* exportPdf, browser path: whether a launched browser is open
  htmlPdf, \* exportPdf: what tryHtmlToPdf returned
  result,  \* a PDF generator: what it returned
  request, \* POST /generate: the body of the request and whether its exporter throws
  fontPath,\* POST /generate: fontPath, a path or <<>> for undefined
  responses,\* POST /generate and POST /upload: the responses sent
  upload,  \* POST /upload: the files of the request, the provider header and the
           \* result of each file's callback
  chromium,\* generatePdfWithChromium: attempt, the browsers open, the errors of the
           \* failed attempts, the pauses taken
  server   \* start(): the started flag, the calls, port, i, the ports tried and the
           \* listener

sanVars == <<raw, text, again>>
shapeVars == <<chars, i, out, lineOut>>
layoutVars ==
  <<embeddedFont, content, linesRaw, rawIdx, wordIdx, current, wrapped, origin,
    lineIdx, y, pageNo, placed>>
jsVars == <<paragraphs, paraIdx, words, lines>>
pagVars == <<geometry, pgIdx, pgY, pgPage, pgPlaced>>
sessionVars == <<calls, seen>>
exportVars == <<fontFile, fontCss, browserOpen, htmlPdf, result>>
routeVars == <<request, fontPath, responses>>
serviceVars == <<upload, chromium, server>>
restVars == <<pagVars, sessionVars, exportVars, routeVars, serviceVars>>
vars == <<pc, sanVars, shapeVars, layoutVars, jsVars, restVars>>

\* ------------------------------------------------------------- bounds
\* longest input string of the shaper, in codepoints
MaxLen == 4

\* ------------------------------------------------------ glyph form table
\* a missing value: chars[i] beyond the array (undefined), '' for an empty out,
\* and a form the table does not define
Undefined == 0

Forms(isolated, initial, medial, final, joinL, joinR) ==
  [isolated |-> isolated, initial |-> initial, medial |-> medial,
   final |-> final, joinL |-> joinL, joinR |-> joinR]

\* the rows with joinL: true (the letter joins on both sides)
DualJoiningForms ==
  1576 :> Forms(65167, 65169, 65170, 65168, TRUE, TRUE) @@
  1578 :> Forms(65173, 65175, 65176, 65174, TRUE, TRUE) @@
  1579 :> Forms(65177, 65179, 65180, 65178, TRUE, TRUE) @@
  1580 :> Forms(65181, 65183, 65184, 65182, TRUE, TRUE) @@
  1581 :> Forms(65185, 65187, 65188, 65186, TRUE, TRUE) @@
  1582 :> Forms(65189, 65191, 65192, 65190, TRUE, TRUE) @@
  1587 :> Forms(65201, 65203, 65204, 65202, TRUE, TRUE) @@
  1588 :> Forms(65205, 65207, 65208, 65206, TRUE, TRUE) @@
  1589 :> Forms(65209, 65211, 65212, 65210, TRUE, TRUE) @@
  1590 :> Forms(65213, 65215, 65216, 65214, TRUE, TRUE) @@
  1591 :> Forms(65217, 65219, 65220, 65218, TRUE, TRUE) @@
  1592 :> Forms(65221, 65223, 65224, 65222, TRUE, TRUE) @@
  1593 :> Forms(65225, 65227, 65228, 65226, TRUE, TRUE) @@
  1594 :> Forms(65229, 65231, 65232, 65230, TRUE, TRUE) @@
  1601 :> Forms(65233, 65235, 65236, 65234, TRUE, TRUE) @@
  1602 :> Forms(65237, 65239, 65240, 65238, TRUE, TRUE) @@
  1603 :> Forms(65241, 65243, 65244, 65242, TRUE, TRUE) @@
  1604 :> Forms(65245, 65247, 65248, 65246, TRUE, TRUE) @@
  1605 :> Forms(65249, 65251, 65252, 65250, TRUE, TRUE) @@
  1606 :> Forms(65253, 65255, 65256, 65254, TRUE, TRUE) @@
  1607 :> Forms(65257, 65259, 65260, 65258, TRUE, TRUE) @@
  1610 :> Forms(65265, 65267, 65268, 65266, TRUE, TRUE)

\* the rows with joinL: false (the letter joins only the letter before it)
RightJoiningForms ==
  1583 :> Forms(65193, 0, 0, 65194, FALSE, TRUE) @@
  1584 :> Forms(65195, 0, 0, 65196, FALSE, TRUE) @@
  1585 :> Forms(65197, 0, 0, 65198, FALSE, TRUE) @@
  1586 :> Forms(65199, 0, 0, 65200, FALSE, TRUE) @@
  1608 :> Forms(65261, 0, 0, 65262, FALSE, TRUE) @@
  1575 :> Forms(65165, 0, 0, 65166, FALSE, TRUE) @@
  1570 :> Forms(65153, 0, 0, 65154, FALSE, TRUE) @@
  1571 :> Forms(65155, 0, 0, 65156, FALSE, TRUE) @@
  1573 :> Forms(65159, 0, 0, 65160, FALSE, TRUE) @@
  1577 :> Forms(65171, 0, 0, 65172, FALSE, TRUE)

\* the table with the waw row written like the yeh row (joinL: true, four forms)
MAP_WawAsYeh ==
  DualJoiningForms @@
  [RightJoiningForms EXCEPT ![1608] = Forms(65265, 65267, 65268, 65266, TRUE, TRUE)]

MAP == DualJoiningForms @@ RightJoiningForms

LAM == 1604
ALEF == 1575
ALEF_MADDA == 1570
ALEF_HAMZA == 1571
ALEF_HAMZA_BELOW == 1573

LIG_LA == 65275
LIG_LA_FINAL == 65276
LIG_LA_MADDA == 65269
LIG_LA_MADDA_FINAL == 65270
LIG_LA_HAMZA == 65271
LIG_LA_HAMZA_FINAL == 65272
LIG_LA_HAMZA_BELOW == 65273
LIG_LA_HAMZA_BELOW_FINAL == 65274

\* the regular expression U+0600..U+06FF tested on ch; undefined and '' fail it
isArabicLetter(ch) == ch \in 1536..1791

canJoinPrev(ch) == ch \in DOMAIN MAP /\ MAP[ch].joinR

canJoinNext(ch) == ch \in DOMAIN MAP /\ MAP[ch].joinL

\* -------------------------------------------------------- shapeArabicText
\* chars[k], undefined outside the array
CharAt(s, k) == IF k \in 1..Len(s) THEN s[k] ELSE Undefined

AlefVariants == {ALEF, ALEF_MADDA, ALEF_HAMZA, ALEF_HAMZA_BELOW}

\* the test of the ligature branch with the plain alef alone
IsLamAlef_PlainAlefOnly(ch, next) == ch = LAM /\ next = ALEF

\* the test of the ligature branch: a lam with one of the four alefs after it
IsLamAlef(ch, next) == ch = LAM /\ next \in AlefVariants

\* prev of the ligature branch: the last element of out, '' when out is empty
PrevOut(o) == IF Len(o) > 0 THEN o[Len(o)] ELSE Undefined

\* the ligature chosen for the alef variant next
Ligature(next, prevCanJoin) ==
  IF next = ALEF_MADDA THEN (IF prevCanJoin THEN LIG_LA_MADDA_FINAL ELSE LIG_LA_MADDA)
  ELSE IF next = ALEF_HAMZA THEN (IF prevCanJoin THEN LIG_LA_HAMZA_FINAL ELSE LIG_LA_HAMZA)
  ELSE IF next = ALEF_HAMZA_BELOW
       THEN (IF prevCanJoin THEN LIG_LA_HAMZA_BELOW_FINAL ELSE LIG_LA_HAMZA_BELOW)
  ELSE (IF prevCanJoin THEN LIG_LA_FINAL ELSE LIG_LA)

\* the form selection with joinsWithPrev not asking whether prevChar joins forward
SelectForm_AnyPrevLetter(ch, prevChar, nextChar) ==
  LET forms == MAP[ch]
      joinsWithPrev == isArabicLetter(prevChar) /\ prevChar \in DOMAIN MAP /\ canJoinPrev(ch)
      joinsWithNext == isArabicLetter(nextChar) /\ canJoinNext(ch) /\ canJoinPrev(nextChar)
  IN  IF joinsWithPrev /\ joinsWithNext /\ forms.medial # Undefined THEN forms.medial
      ELSE IF joinsWithPrev /\ forms.final # Undefined THEN forms.final
      ELSE IF joinsWithNext /\ forms.initial # Undefined THEN forms.initial
      ELSE forms.isolated

\* the form pushed for the table letter ch between prevChar and nextChar
SelectForm(ch, prevChar, nextChar) ==
  LET forms == MAP[ch]
      joinsWithPrev == isArabicLetter(prevChar) /\ canJoinNext(prevChar) /\ canJoinPrev(ch)
      joinsWithNext == isArabicLetter(nextChar) /\ canJoinNext(ch) /\ canJoinPrev(nextChar)
  IN  IF joinsWithPrev /\ joinsWithNext /\ forms.medial # Undefined THEN forms.medial
      ELSE IF joinsWithPrev /\ forms.final # Undefined THEN forms.final
      ELSE IF joinsWithNext /\ forms.initial # Undefined THEN forms.initial
      ELSE forms.isolated

\* a codepoint the table does not hold is pushed as it is
PassThroughPush_Drop(o, ch) == o

PassThroughPush(o, ch) == Append(o, ch)

\* the drawing loop is not running on its own
NoPagination ==
  /\ geometry = [lineHeight |-> 0, pageHeight |-> 0, margin |-> 0, count |-> 0]
  /\ pgIdx = 1 /\ pgY = 0 /\ pgPage = 0 /\ pgPlaced = <<>>

\* no call has returned before this one
NoSession == calls = 0 /\ seen = {}

\* exportPdf is not called with its browser path
NoBrowser ==
  /\ fontFile = "none" /\ fontCss = FALSE /\ browserOpen = FALSE
  /\ htmlPdf = "none" /\ result = <<>>

\* no request is being handled
NoRequest == request = <<>> /\ fontPath = <<>> /\ responses = <<>>

\* nothing but the text functions and the two renderers is running
NoService == upload = <<>> /\ chromium = <<>> /\ server = <<>>
RestIdle == NoPagination /\ NoSession /\ NoBrowser /\ NoRequest /\ NoService

\* no export is running
NoExport ==
  /\ embeddedFont = FALSE /\ content = <<>> /\ linesRaw = <<>>
  /\ rawIdx = 1 /\ wordIdx = 1 /\ current = <<>> /\ wrapped = <<>> /\ origin = <<>>
  /\ lineIdx = 1 /\ y = 0 /\ pageNo = 0 /\ placed = <<>>
  /\ paragraphs = <<>> /\ paraIdx = 1 /\ words = <<>> /\ lines = <<>>

\* the codepoints the shaper is run on: ba U+0628 (joins on both sides), the lam,
\* the alef and the alef with madda, dal U+062F and waw U+0648 (join only
\* backwards), hamza U+0621 (Arabic, not in the table), Latin a and the space
ShapeAlphabet == {1576, LAM, ALEF, ALEF_MADDA, 1583, 1608, 1569, 97, 32}

Strings(A, n) == UNION {[1..k -> A] : k \in 0..n}

InitShape ==
  /\ pc = "shape"
  /\ chars \in Strings(ShapeAlphabet, MaxLen)
  /\ i = 1
  /\ out = <<>>
  /\ lineOut = <<>>
  /\ raw = <<>> /\ text = <<>> /\ again = <<>>
  /\ NoExport
  /\ RestIdle

\* the ligature branch without its i++
ShapeLigature_KeepsAlef ==
  /\ pc = "shape"
  /\ i <= Len(chars)
  /\ IsLamAlef(chars[i], CharAt(chars, i + 1))
  /\ LET prev == PrevOut(out)
         prevCanJoin == isArabicLetter(prev) /\ canJoinNext(prev)
     IN  out' = Append(out, Ligature(CharAt(chars, i + 1), prevCanJoin))
  /\ i' = i + 1
  /\ UNCHANGED <<restVars, pc, chars, lineOut, sanVars, layoutVars, jsVars>>

\* one pass of the loop through the ligature branch: push the ligature, skip the alef
ShapeLigature ==
  /\ pc = "shape"
  /\ i <= Len(chars)
  /\ IsLamAlef(chars[i], CharAt(chars, i + 1))
  /\ LET prev == PrevOut(out)
         prevCanJoin == isArabicLetter(prev) /\ canJoinNext(prev)
     IN  out' = Append(out, Ligature(CharAt(chars, i + 1), prevCanJoin))
  /\ i' = i + 2
  /\ UNCHANGED <<restVars, pc, chars, lineOut, sanVars, layoutVars, jsVars>>

\* the pass for a codepoint the table does not hold, taken outside
\* U+0600..U+06FF only: an Arabic codepoint with no forms has no branch
ShapePassThrough_NonArabicOnly ==
  /\ pc = "shape"
  /\ i <= Len(chars)
  /\ ~IsLamAlef(chars[i], CharAt(chars, i + 1))
  /\ chars[i] \notin DOMAIN MAP
  /\ ~isArabicLetter(chars[i])
  /\ out' = PassThroughPush(out, chars[i])
  /\ i' = i + 1
  /\ UNCHANGED <<restVars, pc, chars, lineOut, sanVars, layoutVars, jsVars>>

\* one pass of the loop for a codepoint the table does not hold: copied
ShapePassThrough ==
  /\ pc = "shape"
  /\ i <= Len(chars)
  /\ ~IsLamAlef(chars[i], CharAt(chars, i + 1))
  /\ chars[i] \notin DOMAIN MAP
  /\ out' = PassThroughPush(out, chars[i])
  /\ i' = i + 1
  /\ UNCHANGED <<restVars, pc, chars, lineOut, sanVars, layoutVars, jsVars>>

\* one pass of the loop for a table letter: its contextual form
ShapeLetter ==
  /\ pc = "shape"
  /\ i <= Len(chars)
  /\ ~IsLamAlef(chars[i], CharAt(chars, i + 1))
  /\ chars[i] \in DOMAIN MAP
  /\ out' = Append(out, SelectForm(chars[i], CharAt(chars, i - 1), CharAt(chars, i + 1)))
  /\ i' = i + 1
  /\ UNCHANGED <<restVars, pc, chars, lineOut, sanVars, layoutVars, jsVars>>

\* the loop ends: return out.join('')
ShapeReturn ==
  /\ pc = "shape"
  /\ i > Len(chars)
  /\ pc' = "shaped"
  /\ UNCHANGED <<restVars, chars, i, out, lineOut, sanVars, layoutVars, jsVars>>

\* --------------------------------------------------------- shapeArabicLine
LineForms(isolated, final, initial, medial) ==
  [isolated |-> isolated, final |-> final, initial |-> initial, medial |-> medial]

ARABIC_FORMS ==
  1576 :> LineForms(65167, 65168, 65169, 65170) @@
  1578 :> LineForms(65173, 65174, 65175, 65176) @@
  1579 :> LineForms(65177, 65178, 65179, 65180) @@
  1580 :> LineForms(65181, 65182, 65183, 65184) @@
  1581 :> LineForms(65185, 65186, 65187, 65188) @@
  1582 :> LineForms(65189, 65190, 65191, 65192) @@
  1583 :> LineForms(65193, 65194, 65193, 65194) @@
  1584 :> LineForms(65195, 65196, 65195, 65196) @@
  1585 :> LineForms(65197, 65198, 65197, 65198) @@
  1586 :> LineForms(65199, 65200, 65199, 65200) @@
  1587 :> LineForms(65201, 65202, 65203, 65204) @@
  1588 :> LineForms(65205, 65206, 65207, 65208) @@
  1589 :> LineForms(65209, 65210, 65211, 65212) @@
  1590 :> LineForms(65213, 65214, 65215, 65216) @@
  1591 :> LineForms(65217, 65218, 65219, 65220) @@
  1592 :> LineForms(65221, 65222, 65223, 65224) @@
  1593 :> LineForms(65225, 65226, 65227, 65228) @@
  1594 :> LineForms(65229, 65230, 65231, 65232) @@
  1601 :> LineForms(65233, 65234, 65235, 65236) @@
  1602 :> LineForms(65237, 65238, 65239, 65240) @@
  1603 :> LineForms(65241, 65242, 65243, 65244) @@
  1604 :> LineForms(65245, 65246, 65247, 65248) @@
  1605 :> LineForms(65249, 65250, 65251, 65252) @@
  1606 :> LineForms(65253, 65254, 65255, 65256) @@
  1607 :> LineForms(65257, 65258, 65259, 65260) @@
  1608 :> LineForms(65261, 65262, 65261, 65262) @@
  1610 :> LineForms(65265, 65266, 65267, 65268) @@
  1577 :> LineForms(65171, 65172, 65171, 65172) @@
  1575 :> LineForms(65165, 65166, 65165, 65166) @@
  1571 :> LineForms(65155, 65156, 65155, 65156) @@
  1573 :> LineForms(65159, 65160, 65159, 65160) @@
  1570 :> LineForms(65153, 65154, 65153, 65154)

NON_CONNECTING_AFTER == {1575, 1571, 1573, 1570, 1583, 1584, 1585, 1586, 1608, 1577}

\* the form for position k with every table letter joining the letter after it
LineFormAt_EveryLetterJoinsNext(cs, k) ==
  LET c == cs[k]
      prev == CharAt(cs, k - 1)
      next == CharAt(cs, k + 1)
      canJoinPrevL == prev \in DOMAIN ARABIC_FORMS
      canJoinNextL == next \in DOMAIN ARABIC_FORMS /\ c \notin NON_CONNECTING_AFTER
  IN  IF c \notin DOMAIN ARABIC_FORMS THEN c
      ELSE IF canJoinPrevL /\ canJoinNextL THEN ARABIC_FORMS[c].medial
      ELSE IF canJoinPrevL /\ ~canJoinNextL THEN ARABIC_FORMS[c].final
      ELSE IF ~canJoinPrevL /\ canJoinNextL THEN ARABIC_FORMS[c].initial
      ELSE ARABIC_FORMS[c].isolated

\* the form pushed for position k of the array cs
LineFormAt(cs, k) ==
  LET c == cs[k]
      prev == CharAt(cs, k - 1)
      next == CharAt(cs, k + 1)
      canJoinPrevL == prev \in DOMAIN ARABIC_FORMS /\ prev \notin NON_CONNECTING_AFTER
      canJoinNextL == next \in DOMAIN ARABIC_FORMS /\ c \notin NON_CONNECTING_AFTER
  IN  IF c \notin DOMAIN ARABIC_FORMS THEN c
      ELSE IF canJoinPrevL /\ canJoinNextL THEN ARABIC_FORMS[c].medial
      ELSE IF canJoinPrevL /\ ~canJoinNextL THEN ARABIC_FORMS[c].final
      ELSE IF ~canJoinPrevL /\ canJoinNextL THEN ARABIC_FORMS[c].initial
      ELSE ARABIC_FORMS[c].isolated

Reverse(s) == [k \in 1..Len(s) |-> s[Len(s) + 1 - k]]

\* the shaped array, reversed when the raw string holds a codepoint of
\* U+0600..U+06FF
shapeArabicLine(rawLine) ==
  LET shapedArr == [k \in 1..Len(rawLine) |-> LineFormAt(rawLine, k)]
      hasArabic == \E k \in 1..Len(rawLine) : rawLine[k] \in 1536..1791
  IN  IF hasArabic THEN Reverse(shapedArr) ELSE shapedArr

shapeArabicForPdfLib(line) == shapeArabicLine(line)

\* the same string is handed to shapeArabicForPdfLib
ShapeForPdfLib ==
  /\ pc = "shaped"
  /\ lineOut' = shapeArabicForPdfLib(chars)
  /\ pc' = "lineShaped"
  /\ UNCHANGED <<restVars, chars, i, out, sanVars, layoutVars, jsVars>>

NextShape == ShapeLigature \/ ShapePassThrough \/ ShapeLetter \/ ShapeReturn \/ ShapeForPdfLib

SpecShape == InitShape /\ [][NextShape]_vars

\* ----------------------------------------------------- sanitizeArabicText
\* longest raw string handed to the sanitizer, in codepoints
MaxRawLen == 4

\* U+064B..U+065F, U+0670, U+06D6..U+06ED
DiacriticClass == (1611..1631) \cup {1648} \cup (1750..1773)

TATWEEL == 1600

\* U+200B..U+200F, U+202A..U+202E, U+2066..U+2069, U+FEFF
ControlClass == (8203..8207) \cup (8234..8238) \cup (8294..8297) \cup {65279}

\* the class \s of a regular expression, which is also what trim() removes
WhiteSpace ==
  (9..13) \cup {32, 160, 5760} \cup (8192..8202) \cup {8232, 8233, 8239, 8287, 12288, 65279}

QuestionMark == 63
Semicolon == 59
ArabicQuestionMark == 1567
ArabicSemicolon == 1563

\* s.replace(/[class]/, ''), without the g flag: the first match only
RemoveAll_FirstOnly(s, class) ==
  LET hits == {k \in 1..Len(s) : s[k] \in class}
  IN  IF hits = {} THEN s
      ELSE LET first == CHOOSE k \in hits : \A m \in hits : k <= m
           IN  SubSeq(s, 1, first - 1) \o SubSeq(s, first + 1, Len(s))

\* s.replace(/[class]/g, '')
RemoveAll(s, class) == SelectSeq(s, LAMBDA c : c \notin class)

\* s.replace(/a/g, b) for single codepoints a and b
ReplaceAll(s, a, b) == [k \in 1..Len(s) |-> IF s[k] = a THEN b ELSE s[k]]

\* the last index of the run of whitespace that starts at k
RunEnd(s, k) ==
  CHOOSE m \in k..Len(s) :
    /\ \A j \in k..m : s[j] \in WhiteSpace
    /\ (m = Len(s) \/ s[m + 1] \notin WhiteSpace)

RECURSIVE CollapseFrom(_, _)
\* s.replace(/\s{2,}/g, ' ') from index k on: each longest run of two or more
\* whitespace codepoints becomes one space, a single whitespace codepoint stays
CollapseFrom(s, k) ==
  IF k > Len(s) THEN <<>>
  ELSE IF s[k] \in WhiteSpace /\ CharAt(s, k + 1) \in WhiteSpace
       THEN <<32>> \o CollapseFrom(s, RunEnd(s, k) + 1)
       ELSE <<s[k]>> \o CollapseFrom(s, k + 1)

CollapseSpaces(s) == CollapseFrom(s, 1)

\* s.trim()
Trim(s) ==
  LET keep == {k \in 1..Len(s) : s[k] \notin WhiteSpace}
  IN  IF keep = {} THEN <<>>
      ELSE SubSeq(s, CHOOSE a \in keep : \A b \in keep : a <= b,
                     CHOOSE a \in keep : \A b \in keep : a >= b)

\* the chain with the removal of the diacritics moved to its end
sanitizeArabicText_StripLast(input) ==
  RemoveAll(
    Trim(CollapseSpaces(
      ReplaceAll(
        ReplaceAll(RemoveAll(RemoveAll(input, {TATWEEL}), ControlClass),
                   QuestionMark, ArabicQuestionMark),
        Semicolon, ArabicSemicolon))),
    DiacriticClass)

sanitizeArabicText(input) ==
  Trim(CollapseSpaces(
    ReplaceAll(
      ReplaceAll(
        RemoveAll(RemoveAll(RemoveAll(input, DiacriticClass), {TATWEEL}), ControlClass),
        QuestionMark, ArabicQuestionMark),
      Semicolon, ArabicSemicolon)))

\* the codepoints of the raw strings: the lam and the alef, a shaped ligature,
\* Latin a, the space and the line feed, the two ASCII marks, fatha U+064E, the
\* tatweel, the zero-width non-joiner U+200C and the Arabic letter mark U+061C
RawAlphabet ==
  {LAM, ALEF, LIG_LA, 97, 32, 10, QuestionMark, Semicolon, 1614, TATWEEL, 8204, 1564}

Init ==
  /\ pc = "raw"
  /\ raw \in Strings(RawAlphabet, MaxRawLen)
  /\ text = <<>> /\ again = <<>>
  /\ chars = <<>> /\ i = 1 /\ out = <<>> /\ lineOut = <<>>
  /\ NoExport
  /\ RestIdle

\* text = sanitizeArabicText(raw)
Sanitize ==
  /\ pc = "raw"
  /\ text' = sanitizeArabicText(raw)
  /\ pc' = "sanitized"
  /\ UNCHANGED <<restVars, raw, again, shapeVars, layoutVars, jsVars>>

\* again = sanitizeArabicText(text)
SanitizeAgain ==
  /\ pc = "sanitized"
  /\ again' = sanitizeArabicText(text)
  /\ pc' = "resanitized"
  /\ UNCHANGED <<restVars, raw, text, shapeVars, layoutVars, jsVars>>

\* shapeArabicText(text) is entered with out kept from the call before
ShapeCall_KeepsOut ==
  /\ pc = "sanitized"
  /\ chars' = text
  /\ i' = 1
  /\ pc' = "shape"
  /\ UNCHANGED <<restVars, out, lineOut, sanVars, layoutVars, jsVars>>

\* shapeArabicText(text) is entered: chars = Array.from(text), out = []
ShapeCall ==
  /\ pc = "sanitized"
  /\ chars' = text
  /\ i' = 1
  /\ out' = <<>>
  /\ pc' = "shape"
  /\ UNCHANGED <<restVars, lineOut, sanVars, layoutVars, jsVars>>

Next == Sanitize \/ SanitizeAgain \/ ShapeCall \/ NextShape

Spec == Init /\ [][Next]_vars

\* ------------------------------------------- exportPdf, the pdf-lib fallback
\* A word is a record [w |-> its measured width, ar |-> whether it holds a
\* codepoint of U+0600..U+06FF]; the line feed is the word of width 0. A raw
\* line is a sequence of words with one space between two of them, and no raw
\* line is a markdown heading.

\* most words and line feeds of a content
MaxItems == 5

\* the size pdf-lib gives a new page, scaled down so that a few words fill a line
PageWidth == 136
PageHeight == 128

\* the width measure() gives the space between two words
SpaceWidth == 2

fontSize == 12
marginX == 48
marginY == 48

maxLineWidth == PageWidth - marginX * 2

Word(w, ar) == [w |-> w, ar |-> ar]

LF == Word(0, FALSE)

\* the words of the contents: a short Arabic word, a short Latin word, an
\* Arabic word that fills the line together with a short one, an Arabic word
\* wider than the line
Items == {Word(10, TRUE), Word(10, FALSE), Word(28, TRUE), Word(50, TRUE), LF}

\* content.replace(/\n{3,}/g, '\n\n'): the third and later line feeds of a run go
CollapseLineFeeds(s) ==
  LET keep == {n \in 1..Len(s) :
                 ~(n >= 3 /\ s[n] = LF /\ s[n - 1] = LF /\ s[n - 2] = LF)}
      nth(m) == CHOOSE n \in keep : Cardinality({q \in keep : q <= n}) = m
  IN  [m \in 1..Cardinality(keep) |-> s[nth(m)]]

\* s.split('\n')
SplitLines(s) ==
  LET feeds == {n \in 1..Len(s) : s[n] = LF}
      count == Cardinality(feeds)
      feed(m) == IF m = 0 THEN 0
                 ELSE IF m = count + 1 THEN Len(s) + 1
                 ELSE CHOOSE n \in feeds : Cardinality({q \in feeds : q <= n}) = m
  IN  [m \in 1..(count + 1) |-> SubSeq(s, feed(m - 1) + 1, feed(m) - 1)]

RECURSIVE SumWidths(_)
SumWidths(t) == IF t = <<>> THEN 0 ELSE Head(t).w + SumWidths(Tail(t))

\* measure(t): the width of the words of t and of the spaces between them
measure(t) == IF t = <<>> THEN 0 ELSE SumWidths(t) + SpaceWidth * (Len(t) - 1)

\* the test of both wrapping branches with < for <=
FitsLine_Strict(t) == measure(t) < maxLineWidth

\* the test of both wrapping branches on the first word of t alone
FitsLine_FirstWordOnly(t) == measure(<<Head(t)>>) <= maxLineWidth

\* measure(t) <= maxLineWidth
FitsLine(t) == measure(t) <= maxLineWidth

\* /[U+0600-U+06FF]/.test(line)
HasArabic(line) == \E n \in 1..Len(line) : line[n].ar

\* lineWidth of the drawing loop (the reversed text has the width of the line)
LineWidthOf(line) == IF line = <<>> THEN 0 ELSE SumWidths(line) + SpaceWidth * (Len(line) - 1)

\* x of the drawing loop with every line set against the right margin
DrawX_AlwaysRight(line) == PageWidth - marginX - LineWidthOf(line)

\* x of the drawing loop
DrawX(line) == IF HasArabic(line) THEN PageWidth - marginX - LineWidthOf(line) ELSE marginX

\* whether drawText draws the text: with no embedded font the page draws with a
\* standard font, whose encoding holds no Arabic codepoint, and drawText throws
DrawTextSucceeds(line) == embeddedFont \/ ~HasArabic(line)

\* exportPdf without the browser, or generatePdfWithJsPdf, is called on a content
InitLayout ==
  /\ pc \in {"content", "jsContent"}
  /\ content \in Strings(Items, MaxItems)
  /\ embeddedFont \in BOOLEAN
  /\ linesRaw = <<>>
  /\ rawIdx = 1 /\ wordIdx = 1 /\ current = <<>> /\ wrapped = <<>> /\ origin = <<>>
  /\ lineIdx = 1 /\ y = 0 /\ pageNo = 0 /\ placed = <<>>
  /\ paragraphs = <<>> /\ paraIdx = 1 /\ words = <<>> /\ lines = <<>>
  /\ raw = <<>> /\ text = <<>> /\ again = <<>>
  /\ chars = <<>> /\ i = 1 /\ out = <<>> /\ lineOut = <<>>
  /\ RestIdle

\* the first page is added, the content is cleaned and split into raw lines
SplitContent ==
  /\ pc = "content"
  /\ pageNo' = 1
  /\ linesRaw' = SplitLines(CollapseLineFeeds(content))
  /\ rawIdx' = 1
  /\ wrapped' = <<>> /\ origin' = <<>>
  /\ pc' = "wrap"
  /\ UNCHANGED <<restVars, embeddedFont, content, wordIdx, current, lineIdx, y, placed,
                 sanVars, shapeVars, jsVars>>

\* a blank raw line with nothing pushed for it
WrapBlank_Skip ==
  /\ pc = "wrap"
  /\ rawIdx <= Len(linesRaw)
  /\ linesRaw[rawIdx] = <<>>
  /\ rawIdx' = rawIdx + 1
  /\ UNCHANGED <<restVars, pc, embeddedFont, content, linesRaw, wordIdx, current, wrapped, origin,
                 lineIdx, y, pageNo, placed, sanVars, shapeVars, jsVars>>

\* a blank raw line: wrapped.push('')
WrapBlank ==
  /\ pc = "wrap"
  /\ rawIdx <= Len(linesRaw)
  /\ linesRaw[rawIdx] = <<>>
  /\ wrapped' = Append(wrapped, <<>>)
  /\ origin' = Append(origin, rawIdx)
  /\ rawIdx' = rawIdx + 1
  /\ UNCHANGED <<restVars, pc, embeddedFont, content, linesRaw, wordIdx, current, lineIdx, y,
                 pageNo, placed, sanVars, shapeVars, jsVars>>

\* a raw line that fits: wrapped.push(raw)
WrapWhole ==
  /\ pc = "wrap"
  /\ rawIdx <= Len(linesRaw)
  /\ linesRaw[rawIdx] # <<>>
  /\ FitsLine(linesRaw[rawIdx])
  /\ wrapped' = Append(wrapped, linesRaw[rawIdx])
  /\ origin' = Append(origin, rawIdx)
  /\ rawIdx' = rawIdx + 1
  /\ UNCHANGED <<restVars, pc, embeddedFont, content, linesRaw, wordIdx, current, lineIdx, y,
                 pageNo, placed, sanVars, shapeVars, jsVars>>

\* a raw line that does not fit: current = '', the loop over its words starts
WrapSplit_KeepsCurrent ==
  /\ pc = "wrap"
  /\ rawIdx <= Len(linesRaw)
  /\ linesRaw[rawIdx] # <<>>
  /\ ~FitsLine(linesRaw[rawIdx])
  /\ current' = current
  /\ wordIdx' = 1
  /\ pc' = "words"
  /\ UNCHANGED <<restVars, embeddedFont, content, linesRaw, rawIdx, wrapped, origin, lineIdx, y,
                 pageNo, placed, sanVars, shapeVars, jsVars>>

WrapSplit ==
  /\ pc = "wrap"
  /\ rawIdx <= Len(linesRaw)
  /\ linesRaw[rawIdx] # <<>>
  /\ ~FitsLine(linesRaw[rawIdx])
  /\ current' = <<>>
  /\ wordIdx' = 1
  /\ pc' = "words"
  /\ UNCHANGED <<restVars, embeddedFont, content, linesRaw, rawIdx, wrapped, origin, lineIdx, y,
                 pageNo, placed, sanVars, shapeVars, jsVars>>

\* the word fits behind current: current = next
WordFits ==
  /\ pc = "words"
  /\ wordIdx <= Len(linesRaw[rawIdx])
  /\ LET next == Append(current, linesRaw[rawIdx][wordIdx])
     IN  /\ FitsLine(next)
         /\ current' = next
  /\ wordIdx' = wordIdx + 1
  /\ UNCHANGED <<restVars, pc, embeddedFont, content, linesRaw, rawIdx, wrapped, origin, lineIdx,
                 y, pageNo, placed, sanVars, shapeVars, jsVars>>

\* the word does not fit: a non-empty current is pushed, current = word
WordOverflow ==
  /\ pc = "words"
  /\ wordIdx <= Len(linesRaw[rawIdx])
  /\ ~FitsLine(Append(current, linesRaw[rawIdx][wordIdx]))
  /\ IF current # <<>>
     THEN wrapped' = Append(wrapped, current) /\ origin' = Append(origin, rawIdx)
     ELSE UNCHANGED <<wrapped, origin>>
  /\ current' = <<linesRaw[rawIdx][wordIdx]>>
  /\ wordIdx' = wordIdx + 1
  /\ UNCHANGED <<restVars, pc, embeddedFont, content, linesRaw, rawIdx, lineIdx, y, pageNo,
                 placed, sanVars, shapeVars, jsVars>>

\* the words are used up: a non-empty current is pushed, the next raw line follows
WrapFlush ==
  /\ pc = "words"
  /\ wordIdx > Len(linesRaw[rawIdx])
  /\ IF current # <<>>
     THEN wrapped' = Append(wrapped, current) /\ origin' = Append(origin, rawIdx)
     ELSE UNCHANGED <<wrapped, origin>>
  /\ rawIdx' = rawIdx + 1
  /\ pc' = "wrap"
  /\ UNCHANGED <<restVars, embeddedFont, content, linesRaw, wordIdx, current, lineIdx, y, pageNo,
                 placed, sanVars, shapeVars, jsVars>>

\* the raw lines are used up: y = height - marginY, the drawing loop starts
WrapDone ==
  /\ pc = "wrap"
  /\ rawIdx > Len(linesRaw)
  /\ y' = PageHeight - marginY
  /\ lineIdx' = 1
  /\ pc' = "draw"
  /\ UNCHANGED <<restVars, embeddedFont, content, linesRaw, rawIdx, wordIdx, current, wrapped,
                 origin, pageNo, placed, sanVars, shapeVars, jsVars>>

\* what one pass of the drawing loop hands to drawText at the cursor yy of page pg
Placement(line, yy, pg) ==
  [line |-> line, x |-> DrawX(line), align |-> "left", y |-> yy,
   width |-> LineWidthOf(line), page |-> pg, drawn |-> DrawTextSucceeds(line)]

\* one pass of the drawing loop with room left on the page
DrawLine ==
  /\ pc = "draw"
  /\ lineIdx <= Len(wrapped)
  /\ ~(y < marginY)
  /\ placed' = Append(placed, Placement(wrapped[lineIdx], y, pageNo))
  /\ y' = y - (fontSize + 4)
  /\ lineIdx' = lineIdx + 1
  /\ UNCHANGED <<restVars, pc, embeddedFont, content, linesRaw, rawIdx, wordIdx, current, wrapped,
                 origin, pageNo, sanVars, shapeVars, jsVars>>

\* the pass with the cursor below the margin, the line left out
DrawLineOnNewPage_SkipsLine ==
  /\ pc = "draw"
  /\ lineIdx <= Len(wrapped)
  /\ y < marginY
  /\ pageNo' = pageNo + 1
  /\ y' = PageHeight - marginY
  /\ lineIdx' = lineIdx + 1
  /\ UNCHANGED <<restVars, pc, embeddedFont, content, linesRaw, rawIdx, wordIdx, current,
                 wrapped, origin, placed, sanVars, shapeVars, jsVars>>

\* the pass with the cursor below the margin, the cursor left where it is
DrawLineOnNewPage_KeepsCursor ==
  /\ pc = "draw"
  /\ lineIdx <= Len(wrapped)
  /\ y < marginY
  /\ pageNo' = pageNo + 1
  /\ placed' = Append(placed, Placement(wrapped[lineIdx], y, pageNo + 1))
  /\ y' = y - (fontSize + 4)
  /\ lineIdx' = lineIdx + 1
  /\ UNCHANGED <<restVars, pc, embeddedFont, content, linesRaw, rawIdx, wordIdx, current, wrapped,
                 origin, sanVars, shapeVars, jsVars>>

\* one pass of the drawing loop with the cursor below the margin: a page is
\* added and the line is drawn at its top
DrawLineOnNewPage ==
  /\ pc = "draw"
  /\ lineIdx <= Len(wrapped)
  /\ y < marginY
  /\ pageNo' = pageNo + 1
  /\ placed' = Append(placed, Placement(wrapped[lineIdx], PageHeight - marginY, pageNo + 1))
  /\ y' = (PageHeight - marginY) - (fontSize + 4)
  /\ lineIdx' = lineIdx + 1
  /\ UNCHANGED <<restVars, pc, embeddedFont, content, linesRaw, rawIdx, wordIdx, current, wrapped,
                 origin, sanVars, shapeVars, jsVars>>

\* the lines are used up: pdfDoc.save(), the result is returned
Save ==
  /\ pc = "draw"
  /\ lineIdx > Len(wrapped)
  /\ pc' = "saved"
  /\ UNCHANGED <<restVars, layoutVars, sanVars, shapeVars, jsVars>>

\* ------------------------------------------------- generatePdfWithJsPdf
\* The words are those of exportPdf; a width is the one doc.getTextWidth gives at
\* the font size of the paragraph the word stands in.

\* the size of the page, scaled down so that a few words fill a line and a few
\* lines fill a page
JsPageWidth == 70
JsPageHeight == 52

jsMarginX == 15
jsMarginY == 18
lineHeight == 7

\* the space the outer loop leaves after a paragraph
ParagraphSpacing == 2

usableWidth == JsPageWidth - jsMarginX * 2

\* a line feed of a run of two or more: what /\n{2,}/ matches
InFeedRun(s, n) ==
  /\ s[n] = LF
  /\ \/ n > 1 /\ s[n - 1] = LF
     \/ n < Len(s) /\ s[n + 1] = LF

RECURSIVE SplitFrom(_, _, _)
SplitFrom(s, n, acc) ==
  LET closed == IF acc = <<>> THEN <<>> ELSE <<acc>>
  IN  IF n > Len(s) THEN closed
      ELSE IF InFeedRun(s, n) THEN closed \o SplitFrom(s, n + 1, <<>>)
      ELSE IF s[n] = LF THEN SplitFrom(s, n + 1, acc)
      ELSE SplitFrom(s, n + 1, Append(acc, s[n]))

\* text.split(/\n{2,}/).map(p => p.trim()).filter(Boolean), each paragraph as the
\* words that split(/\s+/) finds in it: a lone line feed inside a paragraph
\* separates two words as a space does, one at an end is trimmed
splitParagraphs(s) == SplitFrom(s, 1, <<>>)

\* shapeArabicLine(para).split(/\s+/): a paragraph with an Arabic codepoint is
\* reversed as a whole, so its words come in the reverse order
ShapedWords(para) == IF HasArabic(para) THEN Reverse(para) ELSE para

\* doc.getTextWidth(t)
getTextWidth(t) == IF t = <<>> THEN 0 ELSE SumWidths(t) + SpaceWidth * (Len(t) - 1)

\* width > usableWidth && current
Overflows(w, cur) == getTextWidth(<<w>> \o cur) > usableWidth /\ cur # <<>>

\* splitParagraphs(content); y = marginY on the first page
JsSplitParagraphs ==
  /\ pc = "jsContent"
  /\ paragraphs' = splitParagraphs(content)
  /\ paraIdx' = 1
  /\ y' = jsMarginY
  /\ pageNo' = 1
  /\ pc' = "jsPara"
  /\ UNCHANGED <<restVars, embeddedFont, content, linesRaw, rawIdx, wordIdx, current, wrapped,
                 origin, lineIdx, placed, words, lines, sanVars, shapeVars>>

\* the outer loop takes a paragraph: it is shaped and split into words
JsShapeParagraph ==
  /\ pc = "jsPara"
  /\ paraIdx <= Len(paragraphs)
  /\ words' = ShapedWords(paragraphs[paraIdx])
  /\ current' = <<>>
  /\ lines' = <<>>
  /\ wordIdx' = 1
  /\ pc' = "jsWrap"
  /\ UNCHANGED <<restVars, embeddedFont, content, linesRaw, rawIdx, wrapped, origin, lineIdx, y,
                 pageNo, placed, paragraphs, paraIdx, sanVars, shapeVars>>

\* the word loop: the word is put before the words of the current line
JsWordFits ==
  /\ pc = "jsWrap"
  /\ wordIdx <= Len(words)
  /\ ~Overflows(words[wordIdx], current)
  /\ current' = <<words[wordIdx]>> \o current
  /\ wordIdx' = wordIdx + 1
  /\ UNCHANGED <<restVars, pc, embeddedFont, content, linesRaw, rawIdx, wrapped, origin, lineIdx,
                 y, pageNo, placed, paragraphs, paraIdx, words, lines, sanVars,
                 shapeVars>>

\* the word loop: the current line is pushed and the word starts the next one
JsWordOverflow ==
  /\ pc = "jsWrap"
  /\ wordIdx <= Len(words)
  /\ Overflows(words[wordIdx], current)
  /\ lines' = Append(lines, current)
  /\ current' = <<words[wordIdx]>>
  /\ wordIdx' = wordIdx + 1
  /\ UNCHANGED <<restVars, pc, embeddedFont, content, linesRaw, rawIdx, wrapped, origin, lineIdx,
                 y, pageNo, placed, paragraphs, paraIdx, words, sanVars, shapeVars>>

\* the words are used up: if (current) lines.push(current)
JsWrapFlush ==
  /\ pc = "jsWrap"
  /\ wordIdx > Len(words)
  /\ lines' = IF current # <<>> THEN Append(lines, current) ELSE lines
  /\ lineIdx' = 1
  /\ pc' = "jsDraw"
  /\ UNCHANGED <<restVars, embeddedFont, content, linesRaw, rawIdx, wordIdx, current, wrapped,
                 origin, y, pageNo, placed, paragraphs, paraIdx, words, sanVars,
                 shapeVars>>

\* doc.text(l, pageWidth - marginX, y, { align: 'right' }) at the cursor yy of page pg
JsPlacement(line, yy, pg) ==
  [line |-> line, x |-> JsPageWidth - jsMarginX, align |-> "right", y |-> yy,
   width |-> getTextWidth(line), page |-> pg, drawn |-> TRUE]

\* one pass of the line loop with room left on the page
JsDrawLine ==
  /\ pc = "jsDraw"
  /\ lineIdx <= Len(lines)
  /\ ~(y + lineHeight > JsPageHeight - jsMarginY)
  /\ placed' = Append(placed, JsPlacement(lines[lineIdx], y, pageNo))
  /\ origin' = Append(origin, paraIdx)
  /\ y' = y + lineHeight
  /\ lineIdx' = lineIdx + 1
  /\ UNCHANGED <<restVars, pc, embeddedFont, content, linesRaw, rawIdx, wordIdx, current, wrapped,
                 pageNo, jsVars, sanVars, shapeVars>>

\* one pass of the line loop with no room for the line: doc.addPage(), y = marginY
JsDrawLineOnNewPage ==
  /\ pc = "jsDraw"
  /\ lineIdx <= Len(lines)
  /\ y + lineHeight > JsPageHeight - jsMarginY
  /\ pageNo' = pageNo + 1
  /\ placed' = Append(placed, JsPlacement(lines[lineIdx], jsMarginY, pageNo + 1))
  /\ origin' = Append(origin, paraIdx)
  /\ y' = jsMarginY + lineHeight
  /\ lineIdx' = lineIdx + 1
  /\ UNCHANGED <<restVars, pc, embeddedFont, content, linesRaw, rawIdx, wordIdx, current, wrapped,
                 jsVars, sanVars, shapeVars>>

\* the lines of the paragraph are drawn: y += 2, the next paragraph
JsParagraphDone ==
  /\ pc = "jsDraw"
  /\ lineIdx > Len(lines)
  /\ y' = y + ParagraphSpacing
  /\ paraIdx' = paraIdx + 1
  /\ pc' = "jsPara"
  /\ UNCHANGED <<restVars, embeddedFont, content, linesRaw, rawIdx, wordIdx, current, wrapped,
                 origin, lineIdx, pageNo, placed, paragraphs, words, lines, sanVars,
                 shapeVars>>

\* the paragraphs are used up: doc.output('arraybuffer') is returned
JsOutput ==
  /\ pc = "jsPara"
  /\ paraIdx > Len(paragraphs)
  /\ pc' = "jsDone"
  /\ UNCHANGED <<restVars, layoutVars, jsVars, sanVars, shapeVars>>

NextLayout ==
  \/ SplitContent \/ WrapBlank \/ WrapWhole \/ WrapSplit \/ WordFits \/ WordOverflow
  \/ WrapFlush \/ WrapDone \/ DrawLine \/ DrawLineOnNewPage \/ Save
  \/ JsSplitParagraphs \/ JsShapeParagraph \/ JsWordFits \/ JsWordOverflow
  \/ JsWrapFlush \/ JsDrawLine \/ JsDrawLineOnNewPage \/ JsParagraphDone \/ JsOutput

SpecLayout == InitLayout /\ [][NextLayout]_vars

\* ------------------------------------- the drawing loop of exportPdf on its own
\* The loop of exportPdf over the lines, its cursor and its page breaks, at a
\* page height, a margin and a line height given as input, for a number of
\* lines: what is drawn in a line plays no part in it.

\* most lines of a document
MaxLines == 12

\* the page geometries: that of exportPdf, and a page of height 100 with
\* margins of 10 and a line height of 10
Geometries ==
  [lineHeight : {10, fontSize + 4}, pageHeight : {100, PageHeight},
   margin : {10, marginY}, count : 0..MaxLines]

\* let y = height - marginY
TopOfPage(g) == g.pageHeight - g.margin

\* if (y < marginY) with <= for <
BelowMargin_AtMargin(yy, g) == yy <= g.margin

\* if (y < marginY)
BelowMargin(yy, g) == yy < g.margin

InitPaginate ==
  /\ pc = "paginate"
  /\ geometry \in Geometries
  /\ pgIdx = 1
  /\ pgY = TopOfPage(geometry)
  /\ pgPage = 1
  /\ pgPlaced = <<>>
  /\ raw = <<>> /\ text = <<>> /\ again = <<>>
  /\ chars = <<>> /\ i = 1 /\ out = <<>> /\ lineOut = <<>>
  /\ NoExport
  /\ NoSession /\ NoBrowser /\ NoRequest /\ NoService

\* one pass of the loop with the cursor at or above the margin
PaginateLine ==
  /\ pc = "paginate"
  /\ pgIdx <= geometry.count
  /\ ~BelowMargin(pgY, geometry)
  /\ pgPlaced' = Append(pgPlaced, [y |-> pgY, page |-> pgPage])
  /\ pgY' = pgY - geometry.lineHeight
  /\ pgIdx' = pgIdx + 1
  /\ UNCHANGED <<pc, geometry, pgPage, sanVars, shapeVars, layoutVars, jsVars, sessionVars, exportVars, routeVars,
                 serviceVars>>

\* one pass of the loop with the cursor below the margin: a page is added and
\* the line is drawn at its top
PaginateLineOnNewPage ==
  /\ pc = "paginate"
  /\ pgIdx <= geometry.count
  /\ BelowMargin(pgY, geometry)
  /\ pgPage' = pgPage + 1
  /\ pgPlaced' = Append(pgPlaced, [y |-> TopOfPage(geometry), page |-> pgPage + 1])
  /\ pgY' = TopOfPage(geometry) - geometry.lineHeight
  /\ pgIdx' = pgIdx + 1
  /\ UNCHANGED <<pc, geometry, sanVars, shapeVars, layoutVars, jsVars, sessionVars, exportVars, routeVars,
                 serviceVars>>

\* the lines are used up
PaginateDone ==
  /\ pc = "paginate"
  /\ pgIdx > geometry.count
  /\ pc' = "paginated"
  /\ UNCHANGED <<pagVars, sanVars, shapeVars, layoutVars, jsVars, sessionVars, exportVars, routeVars,
                 serviceVars>>

NextPaginate == PaginateLine \/ PaginateLineOnNewPage \/ PaginateDone

SpecPaginate == InitPaginate /\ [][NextPaginate]_vars

\* ------------------------------------------------ exportPdf, both paths
\* exportPdf from its call to its return: tryHtmlToPdf first, whose every step
\* can throw, then, when it gave null, the pdf-lib fallback above.

\* most words and line feeds of the content of an export
MaxExportItems == 4

\* the steps of tryHtmlToPdf that are inside its try block
BrowserSteps == {"export", "htmlFont", "htmlLaunch", "htmlPage", "htmlPdf", "htmlClose"}

\* the ExportResult of exportPdf for the bytes of a PDF
PdfResult(bytes) ==
  [filename |-> "basename-uuid.pdf", mime |-> "application/pdf", base64 |-> bytes]

InitExport ==
  /\ pc = "export"
  /\ content \in Strings(Items, MaxExportItems)
  /\ fontFile \in {"none", "loads", "fails"}
  /\ fontCss = FALSE /\ browserOpen = FALSE /\ htmlPdf = "none" /\ result = <<>>
  /\ embeddedFont = FALSE
  /\ linesRaw = <<>>
  /\ rawIdx = 1 /\ wordIdx = 1 /\ current = <<>> /\ wrapped = <<>> /\ origin = <<>>
  /\ lineIdx = 1 /\ y = 0 /\ pageNo = 0 /\ placed = <<>>
  /\ paragraphs = <<>> /\ paraIdx = 1 /\ words = <<>> /\ lines = <<>>
  /\ raw = <<>> /\ text = <<>> /\ again = <<>>
  /\ chars = <<>> /\ i = 1 /\ out = <<>> /\ lineOut = <<>>
  /\ NoPagination /\ NoSession /\ NoRequest /\ NoService

\* any step of tryHtmlToPdf throws and the error goes on to the caller
HtmlFails_Rethrown ==
  /\ pc \in BrowserSteps
  /\ pc' = "thrown"
  /\ UNCHANGED <<fontFile, fontCss, browserOpen, htmlPdf, result, sanVars, shapeVars,
                 layoutVars, jsVars, pagVars, sessionVars, routeVars,
                 serviceVars>>

\* any step of tryHtmlToPdf throws: the catch returns null
HtmlFails ==
  /\ pc \in BrowserSteps
  /\ htmlPdf' = "null"
  /\ pc' = "htmlDone"
  /\ UNCHANGED <<fontFile, fontCss, browserOpen, result, sanVars, shapeVars, layoutVars,
                 jsVars, pagVars, sessionVars, routeVars,
                 serviceVars>>

\* chromium and puppeteer are imported
HtmlImport ==
  /\ pc = "export"
  /\ pc' = "htmlFont"
  /\ UNCHANGED <<exportVars, sanVars, shapeVars, layoutVars, jsVars, pagVars,
                 sessionVars, routeVars,
                 serviceVars>>

\* the font is read for the @font-face rule, in a try block of its own
HtmlFontRead ==
  /\ pc = "htmlFont"
  /\ fontCss' = (fontFile = "loads")
  /\ pc' = "htmlLaunch"
  /\ UNCHANGED <<fontFile, browserOpen, htmlPdf, result, sanVars, shapeVars, layoutVars,
                 jsVars, pagVars, sessionVars, routeVars,
                 serviceVars>>

\* puppeteer.launch
HtmlLaunch ==
  /\ pc = "htmlLaunch"
  /\ browserOpen' = TRUE
  /\ pc' = "htmlPage"
  /\ UNCHANGED <<fontFile, fontCss, htmlPdf, result, sanVars, shapeVars, layoutVars,
                 jsVars, pagVars, sessionVars, routeVars,
                 serviceVars>>

\* browser.newPage, page.setContent, document.fonts.ready
HtmlSetContent ==
  /\ pc = "htmlPage"
  /\ pc' = "htmlPdf"
  /\ UNCHANGED <<exportVars, sanVars, shapeVars, layoutVars, jsVars, pagVars,
                 sessionVars, routeVars,
                 serviceVars>>

\* page.pdf
HtmlPdf ==
  /\ pc = "htmlPdf"
  /\ pc' = "htmlClose"
  /\ UNCHANGED <<exportVars, sanVars, shapeVars, layoutVars, jsVars, pagVars,
                 sessionVars, routeVars,
                 serviceVars>>

\* browser.close; return pdfBuf
HtmlClose ==
  /\ pc = "htmlClose"
  /\ browserOpen' = FALSE
  /\ htmlPdf' = "buffer"
  /\ pc' = "htmlDone"
  /\ UNCHANGED <<fontFile, fontCss, result, sanVars, shapeVars, layoutVars, jsVars,
                 pagVars, sessionVars, routeVars,
                 serviceVars>>

\* if (htmlPdf) return the ExportResult of the browser's bytes
ReturnHtmlPdf ==
  /\ pc = "htmlDone"
  /\ htmlPdf = "buffer"
  /\ result' = PdfResult("chromium")
  /\ pc' = "returned"
  /\ UNCHANGED <<fontFile, fontCss, browserOpen, htmlPdf, sanVars, shapeVars, layoutVars,
                 jsVars, pagVars, sessionVars, routeVars,
                 serviceVars>>

\* htmlPdf is null: the fallback starts; the font of opts.fontPath, or without
\* one the font ARABIC_TTF_PATH may name, is loaded in a try block, and a font
\* that does not load leaves embeddedFont null
FallbackFont ==
  /\ pc = "htmlDone"
  /\ htmlPdf = "null"
  /\ embeddedFont' \in CASE fontFile = "loads" -> {TRUE}
                        [] fontFile = "fails" -> {FALSE}
                        [] OTHER -> BOOLEAN
  /\ pc' = "content"
  /\ UNCHANGED <<exportVars, content, linesRaw, rawIdx, wordIdx, current, wrapped, origin,
                 lineIdx, y, pageNo, placed, sanVars, shapeVars, jsVars, pagVars,
                 sessionVars, routeVars,
                 serviceVars>>

\* the fallback has saved the document: the ExportResult of its bytes
ReturnFallbackPdf ==
  /\ pc = "saved"
  /\ result' = PdfResult("pdf-lib")
  /\ pc' = "returned"
  /\ UNCHANGED <<fontFile, fontCss, browserOpen, htmlPdf, sanVars, shapeVars, layoutVars,
                 jsVars, pagVars, sessionVars, routeVars,
                 serviceVars>>

NextExport ==
  \/ HtmlImport \/ HtmlFontRead \/ HtmlLaunch \/ HtmlSetContent \/ HtmlPdf \/ HtmlClose
  \/ HtmlFails \/ ReturnHtmlPdf \/ FallbackFont
  \/ SplitContent \/ WrapBlank \/ WrapWhole \/ WrapSplit \/ WordFits \/ WordOverflow
  \/ WrapFlush \/ WrapDone \/ DrawLine \/ DrawLineOnNewPage \/ Save
  \/ ReturnFallbackPdf

SpecExport == InitExport /\ [][NextExport]_vars

\* ------------------------------------- generatePdfWithJsPdf, the whole call
\* generatePdfWithJsPdf from its call to its return: the font, the paragraphs
\* above, the output. Its whole body is one try block, and any call into
\* jsPDF can throw.

\* most words and line feeds of the content of a call
MaxJsItems == 4

\* the steps inside the try block
JsPdfSteps == {"jsStart", "jsContent", "jsPara", "jsWrap", "jsDraw", "jsDone"}

\* Promise<Buffer | null>
JsResult(buffer) == [buffer |-> buffer]

InitJsPdf ==
  /\ pc = "jsStart"
  /\ content \in Strings(Items, MaxJsItems)
  /\ fontFile \in {"none", "loads", "fails"}
  /\ fontCss = FALSE /\ browserOpen = FALSE /\ htmlPdf = "none" /\ result = <<>>
  /\ embeddedFont = FALSE
  /\ linesRaw = <<>>
  /\ rawIdx = 1 /\ wordIdx = 1 /\ current = <<>> /\ wrapped = <<>> /\ origin = <<>>
  /\ lineIdx = 1 /\ y = 0 /\ pageNo = 0 /\ placed = <<>>
  /\ paragraphs = <<>> /\ paraIdx = 1 /\ words = <<>> /\ lines = <<>>
  /\ raw = <<>> /\ text = <<>> /\ again = <<>>
  /\ chars = <<>> /\ i = 1 /\ out = <<>> /\ lineOut = <<>>
  /\ NoPagination /\ NoSession /\ NoRequest /\ NoService

\* a call into jsPDF throws and the error goes on to the caller
JsFails_Rethrown ==
  /\ pc \in JsPdfSteps
  /\ pc' = "thrown"
  /\ UNCHANGED <<exportVars, sanVars, shapeVars, layoutVars, jsVars, pagVars, sessionVars,
                 routeVars,
                 serviceVars>>

\* new jsPDF; the font file is embedded when it exists, in a try block of its
\* own: a missing file and a file that cannot be read or added leave the
\* default font
JsEmbedFont ==
  /\ pc = "jsStart"
  /\ embeddedFont' = (fontFile = "loads")
  /\ pc' = "jsContent"
  /\ UNCHANGED <<exportVars, content, linesRaw, rawIdx, wordIdx, current, wrapped, origin,
                 lineIdx, y, pageNo, placed, sanVars, shapeVars, jsVars, pagVars,
                 sessionVars, routeVars,
                 serviceVars>>

\* a call into jsPDF throws: the catch of the function returns null
JsFails ==
  /\ pc \in JsPdfSteps
  /\ result' = JsResult("null")
  /\ pc' = "returned"
  /\ UNCHANGED <<fontFile, fontCss, browserOpen, htmlPdf, sanVars, shapeVars, layoutVars,
                 jsVars, pagVars, sessionVars, routeVars,
                 serviceVars>>

\* return Buffer.from(doc.output('arraybuffer'))
JsReturnBuffer ==
  /\ pc = "jsDone"
  /\ result' = JsResult("bytes")
  /\ pc' = "returned"
  /\ UNCHANGED <<fontFile, fontCss, browserOpen, htmlPdf, sanVars, shapeVars, layoutVars,
                 jsVars, pagVars, sessionVars, routeVars,
                 serviceVars>>

NextJsPdf ==
  \/ JsEmbedFont \/ JsFails \/ JsReturnBuffer
  \/ JsSplitParagraphs \/ JsShapeParagraph \/ JsWordFits \/ JsWordOverflow
  \/ JsWrapFlush \/ JsDrawLine \/ JsDrawLineOnNewPage \/ JsParagraphDone \/ JsOutput

SpecJsPdf == InitJsPdf /\ [][NextJsPdf]_vars

\* ------------------------------------------- calls one after the other
\* The text functions are synchronous: a call runs to its end before the next
\* one starts. A call creates its locals when it is entered; what the call
\* before left behind stays where it is until then.

\* most calls of a run
MaxCalls == 3

\* longest document of a run, in codepoints
MaxDocLen == 2

\* the codepoints of the documents of a run: the lam, the alef, the space and
\* the Latin a, which the table does not hold
DocAlphabet == {LAM, ALEF, 32, 97}

\* the inputs and results of the call that has returned
Results ==
  {<<"sanitize", raw, text>>}
    \cup (IF pc = "resanitized"
          THEN {<<"sanitize", text, again>>}
          ELSE {<<"shape", chars, out>>, <<"line", chars, lineOut>>})

InitSession ==
  /\ pc = "raw"
  /\ raw \in Strings(DocAlphabet, MaxDocLen)
  /\ text = <<>> /\ again = <<>>
  /\ chars = <<>> /\ i = 1 /\ out = <<>> /\ lineOut = <<>>
  /\ NoExport
  /\ RestIdle

\* the next call starts on another document
NextDocument ==
  /\ pc \in {"resanitized", "lineShaped"}
  /\ calls + 1 < MaxCalls
  /\ seen' = seen \cup Results
  /\ calls' = calls + 1
  /\ raw' \in Strings(DocAlphabet, MaxDocLen)
  /\ pc' = "raw"
  /\ UNCHANGED <<text, again, shapeVars, layoutVars, jsVars, pagVars, exportVars, routeVars,
                 serviceVars>>

NextSession == Next \/ NextDocument

SpecSession == InitSession /\ [][NextSession]_vars

\* ------------------------------------------------ every call, run to its end
\* A call of one of the functions, started on any of the inputs above.
InitTotal == Init \/ InitLayout \/ InitPaginate

NextTotal == Next \/ NextLayout \/ NextPaginate

SpecTotal == InitTotal /\ [][NextTotal]_vars

\* ------------------------------------------- POST /api/export/generate
\* The handler of exportRouter, from the parsed JSON body to the response. The
\* body is whatever JSON the client sent: a field is absent or present, and a
\* present field need not be a string.

Formats == {"txt", "docx", "pdf", "epub"}

\* the bodies of a request: content is absent, the empty string or a text;
\* format is absent, a supported one or any other value; font is absent, the
\* path of a .ttf file in fontsDir, another string, or a value that is not a
\* string (a number, an object)
Bodies ==
  [filename : {"absent", "name"},
   format   : {"absent", "other"} \cup Formats,
   content  : {"absent", "empty", "text"},
   font     : {"absent", "ttfInFontsDir", "otherString", "notString"}]

\* the defaults of the destructuring: filename = 'ocr-output', format = 'txt'
FilenameOf(body) == IF body.filename = "absent" THEN "ocr-output" ELSE body.filename
FormatOf(body) == IF body.format = "absent" THEN "txt" ELSE body.format

\* the ExportResult of the exporter of a format
ExporterOf(format) ==
  CASE format = "txt"  -> "exportTxt"
    [] format = "docx" -> "exportDocx"
    [] format = "pdf"  -> "exportPdf"
    [] format = "epub" -> "exportEpub"

ErrorResponse(status, message) == [status |-> status, body |-> [error |-> message]]
FileResponse(file) == [status |-> 200, body |-> file]

InitRoute ==
  /\ pc = "route"
  /\ request \in Bodies
  /\ fontPath = <<>>
  /\ responses = <<>>
  /\ raw = <<>> /\ text = <<>> /\ again = <<>>
  /\ chars = <<>> /\ i = 1 /\ out = <<>> /\ lineOut = <<>>
  /\ NoExport /\ NoPagination /\ NoSession /\ NoBrowser /\ NoService

\* if (!content) return res.status(400).json({ error: 'Missing content' })
MissingContent ==
  /\ pc = "route"
  /\ request.content \in {"absent", "empty"}
  /\ responses' = Append(responses, ErrorResponse(400, "Missing content"))
  /\ pc' = "responded"
  /\ UNCHANGED <<request, fontPath, sanVars, shapeVars, layoutVars, jsVars, pagVars,
                 sessionVars, exportVars,
                 serviceVars>>

\* if (font && fontsDir): fontPath is set for a .ttf file that exists in
\* fontsDir; fontsDir is always given by the server
ResolveFont ==
  /\ pc = "route"
  /\ request.content = "text"
  /\ request.font # "notString"
  /\ fontPath' = IF request.font = "ttfInFontsDir" THEN <<"abs">> ELSE <<>>
  /\ pc' = "dispatch"
  /\ UNCHANGED <<request, responses, sanVars, shapeVars, layoutVars, jsVars, pagVars,
                 sessionVars, exportVars,
                 serviceVars>>

\* a font that is not a string has no replace method: the TypeError is caught
\* by the handler's catch, which answers 500 with the error's message
ResolveFontThrows ==
  /\ pc = "route"
  /\ request.content = "text"
  /\ request.font = "notString"
  /\ responses' = Append(responses, ErrorResponse(500, "font.replace is not a function"))
  /\ pc' = "responded"
  /\ UNCHANGED <<request, fontPath, sanVars, shapeVars, layoutVars, jsVars, pagVars,
                 sessionVars, exportVars,
                 serviceVars>>

\* else return res.status(400).json({ error: 'Unsupported format' })
UnsupportedFormat ==
  /\ pc = "dispatch"
  /\ FormatOf(request) \notin Formats
  /\ responses' = Append(responses, ErrorResponse(400, "Unsupported format"))
  /\ pc' = "responded"
  /\ UNCHANGED <<request, fontPath, sanVars, shapeVars, layoutVars, jsVars, pagVars,
                 sessionVars, exportVars,
                 serviceVars>>

\* the exporter of the format is called and awaited
CallExporter ==
  /\ pc = "dispatch"
  /\ FormatOf(request) \in Formats
  /\ pc' = "exporting"
  /\ UNCHANGED <<routeVars, sanVars, shapeVars, layoutVars, jsVars, pagVars,
                 sessionVars, exportVars,
                 serviceVars>>

\* the exporter returns its file: return res.json(file)
ExporterReturns ==
  /\ pc = "exporting"
  /\ responses' = Append(responses,
       FileResponse([by |-> ExporterOf(FormatOf(request)),
                     basename |-> FilenameOf(request),
                     fontPath |-> fontPath]))
  /\ pc' = "responded"
  /\ UNCHANGED <<request, fontPath, sanVars, shapeVars, layoutVars, jsVars, pagVars,
                 sessionVars, exportVars,
                 serviceVars>>

\* the exporter throws: the catch answers 500 with the error's message
ExporterThrows ==
  /\ pc = "exporting"
  /\ responses' = Append(responses, ErrorResponse(500, "message of the exporter's error"))
  /\ pc' = "responded"
  /\ UNCHANGED <<request, fontPath, sanVars, shapeVars, layoutVars, jsVars, pagVars,
                 sessionVars, exportVars,
                 serviceVars>>

NextRoute ==
  \/ MissingContent \/ ResolveFont \/ ResolveFontThrows \/ UnsupportedFormat
  \/ CallExporter \/ ExporterReturns \/ ExporterThrows

SpecRoute == InitRoute /\ [][NextRoute]_vars

\* ------------------------------------ POST /api/export/generate, fontPath
\* How the handler gets fontPath from the font of the request. A string is a
\* sequence of pieces of text; a name is a string without a slash; a path is
\* the sequence of its names, written with a slash before each name.

\* most names of the font of a request
MaxSegments == 3

DotDot == <<"..">>

\* the names a font is made of
FontNames ==
  {DotDot, <<"fonts">>, <<"fonts", "-old">>, <<"Amiri">>, <<"a", ".ttf">>,
   <<"A", ".TTF">>, <<"notes", ".txt">>}

\* FONTS_DIR of the server
fontsDir == << <<"app">>, <<"fonts">> >>

\* the files and directories fs.existsSync finds
ExistingPaths ==
  { << <<"app">> >>,
    << <<"app">>, <<"a", ".ttf">> >>,
    << <<"app">>, <<"fonts">> >>,
    << <<"app">>, <<"fonts">>, <<"notes", ".txt">> >>,
    << <<"app">>, <<"fonts">>, <<"Amiri">> >>,
    << <<"app">>, <<"fonts">>, <<"Amiri">>, <<"a", ".ttf">> >>,
    << <<"app">>, <<"fonts">>, <<"Amiri">>, <<"A", ".TTF">> >>,
    << <<"app">>, <<"fonts", "-old">> >>,
    << <<"app">>, <<"fonts", "-old">>, <<"a", ".ttf">> >> }

\* the string of a path
RECURSIVE PathString(_)
PathString(path) ==
  IF path = <<>> THEN <<>> ELSE <<"/">> \o Head(path) \o PathString(Tail(path))

\* str.startsWith(prefix)
StartsWith(str, prefix) ==
  Len(prefix) <= Len(str) /\ SubSeq(str, 1, Len(prefix)) = prefix

\* str.toLowerCase().endsWith('.ttf')
EndsWithTtf(str) == str # <<>> /\ str[Len(str)] \in {".ttf", ".TTF"}

\* font.replace(/^\/fonts\//, ''): the names left of a font that starts with
\* a slash (lead) or does not
StripFontsPrefix(font) ==
  IF font.lead /\ Len(font.segs) >= 2 /\ font.segs[1] = <<"fonts">>
  THEN Tail(font.segs) ELSE font.segs

\* path.join(base, rel): the names of rel behind those of base, a '..' taking
\* the name before it away
RECURSIVE PathJoin(_, _)
PathJoin(base, rel) ==
  IF rel = <<>> THEN base
  ELSE IF Head(rel) = DotDot
       THEN PathJoin(IF base = <<>> THEN base ELSE SubSeq(base, 1, Len(base) - 1), Tail(rel))
       ELSE PathJoin(Append(base, Head(rel)), Tail(rel))

\* abs of the handler for the font of the request
AbsOf(font) == PathJoin(fontsDir, StripFontsPrefix(font))

\* abs.startsWith(fontsDir) && fs.existsSync(abs) && abs.toLowerCase().endsWith('.ttf')
FontAllowed(abs) ==
  /\ StartsWith(PathString(abs), PathString(fontsDir))
  /\ abs \in ExistingPaths
  /\ EndsWithTtf(PathString(abs))

\* the fonts of a request: absent, or a string of names with or without a
\* slash in front (the empty string among them)
FontValues ==
  {[given |-> FALSE, lead |-> FALSE, segs |-> <<>>]} \cup
  [given : {TRUE}, lead : BOOLEAN, segs : Strings(FontNames, MaxSegments)]

InitFontPath ==
  /\ pc = "fontRoute"
  /\ request \in [format : {"pdf", "epub"}, content : {"text"}, font : FontValues]
  /\ fontPath = <<>>
  /\ responses = <<>>
  /\ raw = <<>> /\ text = <<>> /\ again = <<>>
  /\ chars = <<>> /\ i = 1 /\ out = <<>> /\ lineOut = <<>>
  /\ NoExport /\ NoPagination /\ NoSession /\ NoBrowser /\ NoService

\* font is undefined or the empty string: fontPath stays undefined
FontNotGiven ==
  /\ pc = "fontRoute"
  /\ ~request.font.given \/ (~request.font.lead /\ request.font.segs = <<>>)
  /\ pc' = "fontResolved"
  /\ UNCHANGED <<routeVars, sanVars, shapeVars, layoutVars, jsVars, pagVars, sessionVars,
                 exportVars,
                 serviceVars>>

\* the three tests hold for abs: fontPath = abs
FontAccepted ==
  /\ pc = "fontRoute"
  /\ request.font.given /\ (request.font.lead \/ request.font.segs # <<>>)
  /\ FontAllowed(AbsOf(request.font))
  /\ fontPath' = AbsOf(request.font)
  /\ pc' = "fontResolved"
  /\ UNCHANGED <<request, responses, sanVars, shapeVars, layoutVars, jsVars, pagVars,
                 sessionVars, exportVars,
                 serviceVars>>

\* one of the three tests fails: fontPath stays undefined
FontRefused ==
  /\ pc = "fontRoute"
  /\ request.font.given /\ (request.font.lead \/ request.font.segs # <<>>)
  /\ ~FontAllowed(AbsOf(request.font))
  /\ pc' = "fontResolved"
  /\ UNCHANGED <<routeVars, sanVars, shapeVars, layoutVars, jsVars, pagVars, sessionVars,
                 exportVars,
                 serviceVars>>

\* exportPdf or exportEpub is called with { fontPath }
HandFontPath ==
  /\ pc = "fontResolved"
  /\ pc' = "exporting"
  /\ UNCHANGED <<routeVars, sanVars, shapeVars, layoutVars, jsVars, pagVars, sessionVars,
                 exportVars,
                 serviceVars>>

NextFontPath == FontNotGiven \/ FontAccepted \/ FontRefused \/ HandFontPath

SpecFontPath == InitFontPath /\ [][NextFontPath]_vars

\* ------------------------------------------------- POST /api/ocr/upload
\* The upload route: multer takes the files of the request, the handler runs
\* one callback per file, all at once, and answers when all have returned.

\* most files of a request whose callbacks return in any order
MaxFiles == 3

\* upload.array('files', 20)
maxCount == 20

\* the other variables of the model, which the service routes leave alone
engineVars == <<sanVars, shapeVars, layoutVars, jsVars, pagVars, sessionVars, exportVars>>

\* a file of a request: the provider reads it, the provider throws on it, or
\* it is larger than limits.fileSize
FileKinds == {"text", "throws", "tooLarge"}

\* the requests: up to MaxFiles files of any kind, or maxCount or maxCount + 1
\* files the provider reads
Uploads ==
  [files : Strings(FileKinds, MaxFiles)
             \cup {[k \in 1..n |-> "text"] : n \in {maxCount, maxCount + 1}},
   header : {"absent", "gemini", "mistral", "other"},
   configured : {"gemini", "mistral"},
   results : {<<>>}]

\* pickProvider(req.headers['x-ocr-provider'])
pickProvider(header, configured) ==
  LET provider == IF header \in {"mistral", "gemini"} THEN header ELSE configured
  IN  IF provider = "mistral" THEN "processWithMistral" ELSE "processWithGemini"

Pending == [state |-> "pending"]

\* what the provider returns for file k
ProviderResult(k, providerFn) ==
  [state |-> "done", filename |-> k, model |-> providerFn, text |-> "text of the file"]

\* what the catch of the callback returns for file k
FallbackResult(k) ==
  [state |-> "done", filename |-> k, model |-> "fallback", text |-> "OCR fallback error"]

InitUpload ==
  /\ pc = "upload"
  /\ upload \in Uploads
  /\ responses = <<>>
  /\ request = <<>> /\ fontPath = <<>>
  /\ chromium = <<>> /\ server = <<>>
  /\ raw = <<>> /\ text = <<>> /\ again = <<>>
  /\ chars = <<>> /\ i = 1 /\ out = <<>> /\ lineOut = <<>>
  /\ NoExport /\ NoPagination /\ NoSession /\ NoBrowser

\* multer takes any number of files
MulterAccepts_AnyCount(files) == \A k \in 1..Len(files) : files[k] # "tooLarge"

\* multer takes the files: no more than maxCount, none larger than the limit
MulterAccepts(files) ==
  Len(files) <= maxCount /\ \A k \in 1..Len(files) : files[k] # "tooLarge"

\* multer ends the request with its error: the handler does not run
MulterRefuses ==
  /\ pc = "upload"
  /\ ~MulterAccepts(upload.files)
  /\ responses' = Append(responses, ErrorResponse(500, "MulterError"))
  /\ pc' = "responded"
  /\ UNCHANGED <<upload, chromium, server, request, fontPath, engineVars>>

\* if (!files.length) return res.status(400).json({ error: 'No files uploaded' })
NoFiles ==
  /\ pc = "upload"
  /\ MulterAccepts(upload.files)
  /\ upload.files = <<>>
  /\ responses' = Append(responses, ErrorResponse(400, "No files uploaded"))
  /\ pc' = "responded"
  /\ UNCHANGED <<upload, chromium, server, request, fontPath, engineVars>>

\* files.map starts the callback of every file: each one awaits the provider
StartCallbacks ==
  /\ pc = "upload"
  /\ MulterAccepts(upload.files)
  /\ upload.files # <<>>
  /\ upload' = [upload EXCEPT !.results = [k \in 1..Len(upload.files) |-> Pending]]
  /\ pc' = "ocr"
  /\ UNCHANGED <<responses, chromium, server, request, fontPath, engineVars>>

\* the callbacks that can return now: any one that is pending; in a request
\* of more than MaxFiles files the provider answers in upload order
CanReturn(k) ==
  /\ k \in 1..Len(upload.files)
  /\ upload.results[k] = Pending
  /\ Len(upload.files) > MaxFiles => \A m \in 1..(k - 1) : upload.results[m] # Pending

\* the provider returns the text of a file
ProviderReturns ==
  /\ pc = "ocr"
  /\ \E k \in 1..Len(upload.files) :
       /\ CanReturn(k)
       /\ upload.files[k] = "text"
       /\ upload' = [upload EXCEPT !.results[k] =
                       ProviderResult(k, pickProvider(upload.header, upload.configured))]
  /\ UNCHANGED <<pc, responses, chromium, server, request, fontPath, engineVars>>

\* the provider throws on a file: the catch of its callback returns the fallback
ProviderThrows ==
  /\ pc = "ocr"
  /\ \E k \in 1..Len(upload.files) :
       /\ CanReturn(k)
       /\ upload.files[k] = "throws"
       /\ upload' = [upload EXCEPT !.results[k] = FallbackResult(k)]
  /\ UNCHANGED <<pc, responses, chromium, server, request, fontPath, engineVars>>

\* Promise.all has all the results: res.json({ results })
SendResults ==
  /\ pc = "ocr"
  /\ \A k \in 1..Len(upload.files) : upload.results[k] # Pending
  /\ responses' = Append(responses, FileResponse([results |-> upload.results]))
  /\ pc' = "responded"
  /\ UNCHANGED <<upload, chromium, server, request, fontPath, engineVars>>

NextUpload ==
  MulterRefuses \/ NoFiles \/ StartCallbacks \/ ProviderReturns \/ ProviderThrows \/ SendResults

SpecUpload == InitUpload /\ [][NextUpload]_vars

\* ------------------------------------------- generatePdfWithChromium
\* One call of the generator: on the serverless platform up to two attempts,
\* each one launching a browser of its own; elsewhere one run of
\* generateWithPuppeteer. chromium.open counts the browsers that were launched
\* and not closed, chromium.outcomes holds how each attempt ended.

\* for (let attempt = 1; attempt <= 2; attempt++)
maxAttempts == 2

chromiumRest ==
  <<upload, server, routeVars, sanVars, shapeVars, layoutVars, jsVars, pagVars,
    sessionVars, fontFile, browserOpen, htmlPdf, result>>

InitChromium ==
  /\ pc = "chStart"
  /\ chromium \in [isVercel : BOOLEAN, attempt : {0}, open : {0}, error : {"none"},
                    outcomes : {<<>>}, pauses : {0}, result : {"pending"}]
  /\ fontFile \in {"none", "loads", "fails"}
  /\ fontCss = FALSE /\ browserOpen = FALSE /\ htmlPdf = "none" /\ result = <<>>
  /\ upload = <<>> /\ server = <<>>
  /\ raw = <<>> /\ text = <<>> /\ again = <<>>
  /\ chars = <<>> /\ i = 1 /\ out = <<>> /\ lineOut = <<>>
  /\ NoExport /\ NoPagination /\ NoSession /\ NoRequest

\* an attempt begins: the first pass of the loop, the pass after the pause,
\* or the one run outside the serverless platform
ChAttempt ==
  /\ pc = "chStart"
  /\ chromium' = [chromium EXCEPT !.attempt = @ + 1, !.error = "none"]
  /\ fontCss' = FALSE
  /\ pc' = "chLaunch"
  /\ UNCHANGED chromiumRest

\* const browser = await puppeteer.launch(...)
ChLaunch ==
  /\ pc = "chLaunch"
  /\ chromium' = [chromium EXCEPT !.open = @ + 1]
  /\ pc' = "chFont"
  /\ UNCHANGED <<fontCss, chromiumRest>>

\* an import, executablePath() or the launch throws: no browser
ChLaunchFails ==
  /\ pc = "chLaunch"
  /\ chromium' = [chromium EXCEPT !.error = "launch"]
  /\ pc' = "chCatch"
  /\ UNCHANGED <<fontCss, chromiumRest>>

\* generatePdfContent, the font: a file that cannot be read is skipped
ChEmbedFont ==
  /\ pc = "chFont"
  /\ fontCss' = (fontFile = "loads")
  /\ pc' = "chPage"
  /\ UNCHANGED <<chromium, chromiumRest>>

\* generatePdfContent, the page: page.pdf returns the buffer and the finally
\* block closes the page
ChRender ==
  /\ pc = "chPage"
  /\ pc' = "chClose"
  /\ UNCHANGED <<chromium, fontCss, chromiumRest>>

\* a call on the page throws: the error is thrown again after the finally
\* block has closed the page
ChRenderFails ==
  /\ pc = "chPage"
  /\ chromium' = [chromium EXCEPT !.error = "render"]
  /\ pc' = "chCatch"
  /\ UNCHANGED <<fontCss, chromiumRest>>

\* the 25 s timer of the serverless attempt rejects before the page is done
ChTimeout ==
  /\ pc \in {"chFont", "chPage"}
  /\ chromium.isVercel
  /\ chromium' = [chromium EXCEPT !.error = "timeout"]
  /\ pc' = "chCatch"
  /\ UNCHANGED <<fontCss, chromiumRest>>

\* the pause is left out
ChPause_NoWait ==
  /\ pc = "chPause"
  /\ pc' = "chStart"
  /\ UNCHANGED <<chromium, fontCss, chromiumRest>>

\* await browser.close(); return result
ChClose ==
  /\ pc = "chClose"
  /\ chromium' = [chromium EXCEPT !.open = @ - 1, !.result = "pdf",
                                   !.outcomes = Append(@, "pdf")]
  /\ pc' = "chReturned"
  /\ UNCHANGED <<fontCss, chromiumRest>>

\* browser.close() throws, with the browser gone or still there
ChCloseFails ==
  /\ pc = "chClose"
  /\ \E left \in {chromium.open - 1, chromium.open} :
       chromium' = [chromium EXCEPT !.open = left, !.error = "close"]
  /\ pc' = "chCatch"
  /\ UNCHANGED <<fontCss, chromiumRest>>

\* the catch of the attempt: lastError = error, then the pause when another
\* attempt is left, else return null; outside the serverless platform the
\* outer catch returns null
ChCatch ==
  /\ pc = "chCatch"
  /\ IF chromium.isVercel /\ chromium.attempt < maxAttempts
     THEN /\ chromium' = [chromium EXCEPT !.outcomes = Append(@, chromium.error)]
          /\ pc' = "chPause"
     ELSE /\ chromium' = [chromium EXCEPT !.outcomes = Append(@, chromium.error),
                                          !.result = "null"]
          /\ pc' = "chReturned"
  /\ UNCHANGED <<fontCss, chromiumRest>>

\* await new Promise(resolve => setTimeout(resolve, 1000))
ChPause ==
  /\ pc = "chPause"
  /\ chromium' = [chromium EXCEPT !.pauses = @ + 1]
  /\ pc' = "chStart"
  /\ UNCHANGED <<fontCss, chromiumRest>>

NextChromium ==
  \/ ChAttempt \/ ChLaunch \/ ChLaunchFails \/ ChEmbedFont \/ ChRender
  \/ ChRenderFails \/ ChTimeout \/ ChClose \/ ChCloseFails \/ ChCatch \/ ChPause

SpecChromium == InitChromium /\ [][NextChromium]_vars

\* ------------------------------------------------------------- start()
\* The server of one process: start() may be called more than once, and the
\* call that finds the flag unset tries the ports. server.ports is what the
\* machine answers to a listen on each port, server.tried the ports that
\* app.listen was called with, server.listeners the ports that are listening.

\* most calls of start() in the process
MaxStartCalls == 3

\* Number(process.env.PORT || 5174)
DefaultPort == 5174
BasePorts == {DefaultPort, 3000}

\* const maxTries = 5
maxTries == 5

\* a port is free, in use (EADDRINUSE) or refused with another error
PortStates == {"free", "inUse", "denied"}

startRest ==
  <<upload, chromium, routeVars, sanVars, shapeVars, layoutVars, jsVars, pagVars,
    sessionVars, exportVars>>

InitStart ==
  /\ pc = "stIdle"
  /\ \E base \in BasePorts :
       server \in [base : {base}, ports : [base..(base + maxTries) -> PortStates],
                   started : {FALSE}, calls : {0}, port : {0}, i : {0},
                   tried : {<<>>}, listeners : {{}}]
  /\ upload = <<>> /\ chromium = <<>>
  /\ raw = <<>> /\ text = <<>> /\ again = <<>>
  /\ chars = <<>> /\ i = 1 /\ out = <<>> /\ lineOut = <<>>
  /\ NoExport /\ NoPagination /\ NoSession /\ NoBrowser /\ NoRequest

\* a later call of start() tries the ports like the first one
StartAgain_Restarts ==
  /\ server.started
  /\ server.calls < MaxStartCalls
  /\ server' = [server EXCEPT !.calls = @ + 1, !.port = server.base, !.i = 0]
  /\ pc' = "stListen"
  /\ UNCHANGED startRest

\* the call that finds the flag unset: it sets the flag and enters the loop
StartFirst ==
  /\ ~server.started
  /\ server.calls < MaxStartCalls
  /\ server' = [server EXCEPT !.started = TRUE, !.calls = @ + 1,
                               !.port = server.base, !.i = 0]
  /\ pc' = "stListen"
  /\ UNCHANGED startRest

\* if (global.__OCR_SERVER_STARTED) return
StartAgain ==
  /\ server.started
  /\ server.calls < MaxStartCalls
  /\ server' = [server EXCEPT !.calls = @ + 1]
  /\ UNCHANGED <<pc, startRest>>

\* app.listen(port) calls back: the promise resolves and the loop breaks
ListenOk ==
  /\ pc = "stListen"
  /\ server.ports[server.port] = "free"
  /\ server' = [server EXCEPT !.tried = Append(@, server.port),
                               !.listeners = @ \cup {server.port}]
  /\ pc' = "stDone"
  /\ UNCHANGED startRest

\* the 'error' event with EADDRINUSE: port += 1, and the loop goes on unless
\* this was its last pass
ListenInUse ==
  /\ pc = "stListen"
  /\ server.ports[server.port] = "inUse"
  /\ server' = [server EXCEPT !.tried = Append(@, server.port),
                               !.port = @ + 1, !.i = @ + 1]
  /\ pc' = IF server.i + 1 < maxTries THEN "stListen" ELSE "stDone"
  /\ UNCHANGED startRest

\* the 'error' event with another code: the loop breaks
ListenOtherError ==
  /\ pc = "stListen"
  /\ server.ports[server.port] = "denied"
  /\ server' = [server EXCEPT !.tried = Append(@, server.port)]
  /\ pc' = "stDone"
  /\ UNCHANGED startRest

NextStart ==
  StartFirst \/ StartAgain \/ ListenOk \/ ListenInUse \/ ListenOtherError

SpecStart == InitStart /\ [][NextStart]_vars

\* =================================================================== claims
\* ------------------------------------------------ positions in the output
\* a lam at j with one of the four alef variants at j + 1
LamAlefPairAt(s, j) ==
  j \in 1..(Len(s) - 1) /\ s[j] = 1604 /\ s[j + 1] \in {1570, 1571, 1573, 1575}

\* the alef of a pair: it has no output codepoint of its own
ConsumedAt(s, j) == LamAlefPairAt(s, j - 1)

\* where the output codepoint of input position j stands
OutIndex(s, j) == j - Cardinality({k \in 1..(j - 1) : LamAlefPairAt(s, k)})

IsolatedLigatureOf(alef) ==
  CASE alef = 1575 -> 65275 [] alef = 1570 -> 65269
    [] alef = 1571 -> 65271 [] alef = 1573 -> 65273

FinalLigatureOf(alef) == IsolatedLigatureOf(alef) + 1

\* C1: a lam followed by an alef variant becomes the FINAL form of the ligature
\* when the letter before the lam is a table letter that joins forward, and the
\* ISOLATED form otherwise; ba + lam + alef gives U+FE91 U+FEFC
C1_LigatureFormFollowsPrecedingLetter ==
  pc = "shaped" =>
    /\ \A j \in 1..Len(chars) :
         LamAlefPairAt(chars, j) =>
           CharAt(out, OutIndex(chars, j)) =
             IF canJoinNext(CharAt(chars, j - 1))
             THEN FinalLigatureOf(chars[j + 1])
             ELSE IsolatedLigatureOf(chars[j + 1])
    /\ (chars = <<1576, 1604, 1575>> => out = <<65169, 65276>>)

\* the codepoints input position j may turn into when it is shaped on its own
OwnForms(c) ==
  IF c \in DOMAIN MAP
  THEN {MAP[c].isolated, MAP[c].initial, MAP[c].medial, MAP[c].final} \ {Undefined}
  ELSE {c}

\* C2: every lam followed at once by an alef variant is replaced by exactly one
\* ligature codepoint that stands for both letters: the output has one codepoint
\* per pair and one per other input codepoint, and lam + alef gives U+FEFB alone
C2_LigationGreedyAndTotal ==
  pc = "shaped" =>
    /\ Len(out) = Len(chars) - Cardinality({j \in 1..Len(chars) : LamAlefPairAt(chars, j)})
    /\ \A j \in 1..Len(chars) :
         IF LamAlefPairAt(chars, j)
         THEN CharAt(out, OutIndex(chars, j)) \in
                {IsolatedLigatureOf(chars[j + 1]), FinalLigatureOf(chars[j + 1])}
         ELSE ConsumedAt(chars, j) \/ CharAt(out, OutIndex(chars, j)) \in OwnForms(chars[j])
    /\ (chars = <<1604, 1575>> => out = <<65275>>)

C2_Witness ==
  /\ pc = "shaped"
  /\ Len(chars) >= 3
  /\ \E j \in 1..Len(chars) : LamAlefPairAt(chars, j) /\ chars[j + 1] # 1575
  /\ Len(out) < Len(chars)

\* the form the rule of the four cases gives the table letter at position j
RuleForm(s, j) ==
  LET f == MAP[s[j]]
      p == CharAt(s, j - 1)
      n == CharAt(s, j + 1)
      joinsWithPrev == p \in DOMAIN MAP /\ MAP[p].joinL /\ f.joinR
      joinsWithNext == f.joinL /\ n \in DOMAIN MAP /\ MAP[n].joinR
  IN  CASE joinsWithPrev /\ joinsWithNext -> f.medial
        [] joinsWithPrev /\ ~joinsWithNext -> f.final
        [] ~joinsWithPrev /\ joinsWithNext -> f.initial
        [] OTHER -> f.isolated

\* C3: a table letter that no ligature takes up gets its form from the raw
\* neighbours alone: medial when it joins both, final when only the previous
\* one, initial when only the next one, isolated otherwise, the ends of the
\* string joining nothing
\* (shapeArabicLine forms no ligature and hands the codepoints back in reverse)
C3_FormFromRawNeighbours ==
  /\ pc = "shaped" =>
       \A j \in 1..Len(chars) :
         (chars[j] \in DOMAIN MAP /\ ~LamAlefPairAt(chars, j) /\ ~ConsumedAt(chars, j)) =>
           /\ RuleForm(chars, j) # Undefined
           /\ CharAt(out, OutIndex(chars, j)) = RuleForm(chars, j)
  /\ pc = "lineShaped" =>
       \A j \in 1..Len(chars) :
         chars[j] \in DOMAIN MAP =>
           CharAt(lineOut, Len(chars) + 1 - j) = RuleForm(chars, j)

C3_Witness ==
  /\ pc = "shaped"
  /\ \E j \in 2..(Len(chars) - 1) :
       /\ chars[j] \in DOMAIN MAP /\ ~LamAlefPairAt(chars, j)
       /\ CharAt(out, OutIndex(chars, j)) = MAP[chars[j]].medial
  /\ \E j \in 2..Len(chars) :
       /\ chars[j - 1] = 1569 /\ chars[j] = 1576
       /\ CharAt(out, OutIndex(chars, j)) = MAP[chars[j]].initial

\* alef and its madda and hamza variants, dal, thal, ra, zay, waw, ta marbuta
NonForwardJoining == {1575, 1570, 1571, 1573, 1583, 1584, 1585, 1586, 1608, 1577}

\* C4: a letter that does not join forward is only ever put out in its isolated
\* or its final form, never in an initial or a medial one
C4_NoInitialOrMedialOfNonJoiner ==
  pc = "shaped" =>
    \A j \in 1..Len(chars) :
      (chars[j] \in NonForwardJoining /\ ~ConsumedAt(chars, j)) =>
        CharAt(out, OutIndex(chars, j)) \in {MAP[chars[j]].isolated, MAP[chars[j]].final}

C4_Witness ==
  /\ pc = "shaped"
  /\ \E j \in 2..(Len(chars) - 1) :
       /\ chars[j] = 1608 /\ chars[j - 1] = 1576 /\ chars[j + 1] = 1576
       /\ CharAt(out, OutIndex(chars, j)) = 65262
       /\ CharAt(out, OutIndex(chars, j + 1)) \in {65167, 65169}

\* ------------------------------------------------ sanitizer and pipeline
\* C5: when the raw string holds no table letter, shaping the sanitized string
\* gives the sanitized string back: every codepoint the table does not hold is
\* copied in place
C5_NonArabicPassesThrough ==
  (pc = "shaped" /\ \A k \in 1..Len(raw) : raw[k] \notin DOMAIN MAP) => out = text

C5_Witness ==
  /\ pc = "shaped"
  /\ \A k \in 1..Len(raw) : raw[k] \notin DOMAIN MAP
  /\ \E k \in 1..Len(text) : text[k] = 65275
  /\ \E k \in 1..Len(text) : text[k] = 1567
  /\ Len(text) >= 3
  /\ out = text

\* C6: sanitizing a sanitized string changes nothing
C6_SanitizeIdempotent ==
  pc = "resanitized" => again = text

\* a raw string where a removed codepoint stands between two whitespace
\* codepoints, behind a codepoint that stays
C6_Witness ==
  /\ pc = "resanitized"
  /\ \E k \in 3..(Len(raw) - 1) :
       /\ raw[k] \in {1614, 1600, 8204}
       /\ raw[k - 1] \in {32, 10} /\ raw[k + 1] \in {32, 10}
       /\ raw[k - 2] = 97
  /\ again = text
  /\ text = <<97>>

\* combining marks of the Arabic block: U+0610..U+061A, U+064B..U+065F, U+0670,
\* U+06D6..U+06ED
ArabicMarks == (1552..1562) \cup (1611..1631) \cup {1648} \cup (1750..1773)

\* zero-width and bidirectional control codepoints: U+061C, U+200B..U+200F,
\* U+202A..U+202E, U+2060, U+2066..U+2069, U+FEFF
InvisibleControls ==
  {1564} \cup (8203..8207) \cup (8234..8238) \cup {8288} \cup (8294..8297) \cup {65279}

\* C7: the sanitized string holds no Arabic diacritic or annotation mark, no
\* tatweel, no zero-width or bidirectional control codepoint, no '?' and no ';',
\* no two whitespace codepoints in a row and no whitespace at either end
C7_SanitizedTextIsClean ==
  pc # "raw" =>
    /\ \A k \in 1..Len(text) :
         text[k] \notin ArabicMarks \cup {1600} \cup InvisibleControls \cup {63, 59}
    /\ \A k \in 1..(Len(text) - 1) :
         ~(text[k] \in WhiteSpace /\ text[k + 1] \in WhiteSpace)
    /\ (Len(text) > 0 => text[1] \notin WhiteSpace /\ text[Len(text)] \notin WhiteSpace)

\* ------------------------------------------------------------ line layout
\* the lines that came from raw line or paragraph p
LinesOf(p) == {n \in 1..Len(origin) : origin[n] = p}

\* line n is the last one of its raw line or paragraph
IsLastOfParagraph(n) == \A m \in LinesOf(origin[n]) : m <= n

\* the width of the words of a line at the width of one space between two words
NaturalWidth(line) ==
  IF line = <<>> THEN 0 ELSE SumWidths(line) + SpaceWidth * (Len(line) - 1)

\* C8: a line with two or more words that is not the last one of its paragraph
\* is justified: its words and gaps fill the line width exactly, the first word
\* ending at the right margin; in exportPdf and in generatePdfWithJsPdf
C8_NonFinalLinesFillTheWidth ==
  /\ pc = "saved" =>
       \A n \in 1..Len(placed) :
         (~IsLastOfParagraph(n) /\ Len(placed[n].line) >= 2) =>
           /\ placed[n].width = maxLineWidth
           /\ placed[n].x + placed[n].width = PageWidth - marginX
  /\ pc = "jsDone" =>
       \A n \in 1..Len(placed) :
         (~IsLastOfParagraph(n) /\ Len(placed[n].line) >= 2) =>
           /\ placed[n].width = usableWidth
           /\ placed[n].align = "right"
           /\ placed[n].x = JsPageWidth - jsMarginX

RECURSIVE Joined(_, _)
Joined(p, n) ==
  IF n > Len(wrapped) THEN <<>>
  ELSE (IF origin[n] = p THEN wrapped[n] ELSE <<>>) \o Joined(p, n + 1)

\* the words of the lines of the paragraph of generatePdfWithJsPdf in the order
\* the word loop took them: a line holds its words last taken first
RECURSIVE JsJoined(_)
JsJoined(n) == IF n > Len(lines) THEN <<>> ELSE Reverse(lines[n]) \o JsJoined(n + 1)

\* C10: the lines of a paragraph are its words broken greedily: a line of two
\* or more words is no wider than the line width at natural spacing, and the
\* first word taken for a line would not have fitted on the line before it; in
\* exportPdf and in the word loop of generatePdfWithJsPdf
C10_GreedyLineBreaking ==
  /\ pc = "saved" =>
       /\ \A p \in 1..Len(linesRaw) : Joined(p, 1) = linesRaw[p]
       /\ \A n \in 1..Len(wrapped) :
            /\ Len(wrapped[n]) >= 2 => NaturalWidth(wrapped[n]) <= maxLineWidth
            /\ (n > 1 /\ origin[n] = origin[n - 1]) =>
                 NaturalWidth(wrapped[n - 1]) + SpaceWidth + wrapped[n][1].w
                   > maxLineWidth
  /\ pc = "jsDraw" =>
       /\ JsJoined(1) = words
       /\ \A n \in 1..Len(lines) :
            /\ lines[n] # <<>>
            /\ Len(lines[n]) >= 2 => NaturalWidth(lines[n]) <= usableWidth
            /\ n > 1 =>
                 NaturalWidth(lines[n - 1]) + SpaceWidth + lines[n][Len(lines[n])].w
                   > usableWidth

\* a paragraph broken behind a line that is exactly full
C10_Witness ==
  /\ pc = "saved"
  /\ \E n \in 2..Len(wrapped) :
       /\ origin[n] = origin[n - 1]
       /\ Len(wrapped[n - 1]) >= 2
       /\ NaturalWidth(wrapped[n - 1]) = maxLineWidth
       /\ wrapped[n] # <<>>

\* ------------------------------------------------------- over-wide words
\* a word wider than the line width lim stands in the line
HoldsWide(line, lim) == \E k \in 1..Len(line) : line[k].w > lim

TokenX(line, k) ==
  (JsPageWidth - jsMarginX) - getTextWidth(line) + getTextWidth(SubSeq(line, 1, k - 1))
    + (IF k > 1 THEN SpaceWidth ELSE 0)

\* the words of a line from the right margin leftwards
EmittedOrder(line) == Reverse(line)

\* C12: the lines of a paragraph of generatePdfWithJsPdf from the top down, the
\* words of each line from the right margin leftwards, are the words of the
\* paragraph in their order; the first of them ends at the right margin and
\* each later one starts left of the one before it
C12_LogicalTokenOrderKept ==
  pc = "jsDraw" =>
    /\ JsJoined(1) = paragraphs[paraIdx]
    /\ \A n \in 1..Len(lines) :
         LET emitted == EmittedOrder(lines[n])
             xOf(k) == TokenX(lines[n], Len(lines[n]) + 1 - k)
         IN  /\ xOf(1) + emitted[1].w = JsPageWidth - jsMarginX
             /\ \A k \in 2..Len(emitted) : xOf(k) + emitted[k].w <= xOf(k - 1)

\* ----------------------------------------------------------- empty inputs
\* C13 as it was stated: an empty paragraph gives no line, and with no line
\* at all the document is one page that holds no line
C13_EmptyParagraphGivesNoLine ==
  pc = "saved" =>
    /\ \A p \in 1..Len(linesRaw) : linesRaw[p] = <<>> => LinesOf(p) = {}
    /\ content = <<>> => (pageNo = 1 /\ placed = <<>>)

\* C13, amended: in exportPdf an empty paragraph gives exactly one line, the
\* empty one, so there is never no line at all, and the empty content gives
\* one page on which that one empty line is drawn; generatePdfWithJsPdf gives
\* the empty content no line and one page
C13_EmptyParagraphGivesOneEmptyLine ==
  /\ pc = "saved" =>
       /\ \A p \in 1..Len(linesRaw) :
            linesRaw[p] = <<>> =>
              \E n \in 1..Len(wrapped) : LinesOf(p) = {n} /\ wrapped[n] = <<>>
       /\ Len(wrapped) >= 1 /\ Len(placed) = Len(wrapped) /\ pageNo >= 1
       /\ content = <<>> =>
            /\ pageNo = 1
            /\ Len(placed) = 1
            /\ placed[1].line = <<>> /\ placed[1].width = 0 /\ placed[1].drawn
            /\ placed[1].y = PageHeight - marginY
  /\ (pc = "jsDone" /\ content = <<>>) =>
       (paragraphs = <<>> /\ placed = <<>> /\ pageNo = 1)

\* exportPdf has returned for the empty content
C13_Witness == pc = "saved" /\ content = <<>> /\ linesRaw = << <<>> >>

\* ------------------------------------------------------------- pagination
\* the cursor of exportPdf moves by fontSize + 4 a line
ExportLineHeight == fontSize + 4

\* the cursor of generatePdfWithJsPdf before line n + 1, line n placed: the
\* line height, and the paragraph spacing behind the last line of a paragraph
JsCursorAfter(n) ==
  placed[n].y + lineHeight + (IF origin[n + 1] # origin[n] THEN ParagraphSpacing ELSE 0)

\* C14 as it was stated: a page starts at the top cursor position, and no
\* line is placed at a cursor position from which a full line height crosses
\* the bottom margin; in exportPdf and in generatePdfWithJsPdf
C14_FullLineHeightAboveBottomMargin ==
  /\ pc = "saved" =>
       \A n \in 1..Len(placed) :
         /\ placed[n].y <= PageHeight - marginY
         /\ placed[n].y - ExportLineHeight >= marginY
  /\ pc = "jsDone" =>
       \A n \in 1..Len(placed) :
         /\ placed[n].y >= jsMarginY
         /\ placed[n].y + lineHeight <= JsPageHeight - jsMarginY

\* C14, amended: exportPdf starts each page at height - marginY and opens a
\* new page before a line exactly when the cursor itself is below the bottom
\* margin, so every line is placed at a cursor no lower than the margin, the
\* last one of a page less than a line height above it;
\* generatePdfWithJsPdf starts each page at marginY and opens a new page
\* exactly when the line height does not fit above the bottom margin
C14_PageBreakRule ==
  /\ pc = "saved" =>
       /\ placed[1].page = 1 /\ placed[1].y = PageHeight - marginY
       /\ \A n \in 1..Len(placed) :
            placed[n].y >= marginY /\ placed[n].y <= PageHeight - marginY
       /\ \A n \in 1..(Len(placed) - 1) :
            IF placed[n].y - ExportLineHeight < marginY
            THEN /\ placed[n + 1].page = placed[n].page + 1
                 /\ placed[n + 1].y = PageHeight - marginY
            ELSE /\ placed[n + 1].page = placed[n].page
                 /\ placed[n + 1].y = placed[n].y - ExportLineHeight
  /\ pc = "jsDone" =>
       /\ placed # <<>> => (placed[1].page = 1 /\ placed[1].y = jsMarginY)
       /\ \A n \in 1..Len(placed) :
            /\ placed[n].y >= jsMarginY
            /\ placed[n].y + lineHeight <= JsPageHeight - jsMarginY
       /\ \A n \in 1..(Len(placed) - 1) :
            IF JsCursorAfter(n) + lineHeight > JsPageHeight - jsMarginY
            THEN /\ placed[n + 1].page = placed[n].page + 1
                 /\ placed[n + 1].y = jsMarginY
            ELSE /\ placed[n + 1].page = placed[n].page
                 /\ placed[n + 1].y = JsCursorAfter(n)

\* exportPdf has placed a line less than a line height above the bottom
\* margin and the next line at the top of the next page
C14_Witness ==
  /\ pc = "saved"
  /\ \E n \in 1..(Len(placed) - 1) :
       /\ placed[n].y >= marginY
       /\ placed[n].y - ExportLineHeight < marginY
       /\ placed[n + 1].page = placed[n].page + 1
       /\ placed[n + 1].y = PageHeight - marginY

\* the page of height 100 with margins of 10 and a line height of 10
ClaimGeometry(g) == g.lineHeight = 10 /\ g.pageHeight = 100 /\ g.margin = 10

\* C15 as it was stated: on that page the 9th and the 10th line are both
\* placed on the first page
C15_NinthAndTenthOnFirstPage ==
  (pc = "paginated" /\ ClaimGeometry(geometry) /\ geometry.count >= 10) =>
    (pgPlaced[9].page = 1 /\ pgPlaced[10].page = 1)

\* C15, amended: on that page the lines 1 to 9 are placed on the first page,
\* the 9th at the cursor 10, and the 10th line, the first one that finds the
\* cursor below the bottom margin, is placed at the top of the second page
C15_NinthOnFirstTenthOnSecondPage ==
  (pc = "paginated" /\ ClaimGeometry(geometry)) =>
    /\ \A n \in 1..Len(pgPlaced) :
         n <= 9 => (pgPlaced[n].page = 1 /\ pgPlaced[n].y = 90 - 10 * (n - 1))
    /\ Len(pgPlaced) >= 10 => (pgPlaced[10].page = 2 /\ pgPlaced[10].y = 90)
    /\ Len(pgPlaced) = geometry.count

\* the loop has drawn ten lines or more on that page
C15_Witness ==
  /\ pc = "paginated" /\ ClaimGeometry(geometry)
  /\ Len(pgPlaced) >= 10
  /\ pgPlaced[9].page = 1 /\ pgPlaced[10].page = 2

\* the lines handed to the renderer so far, in the order of the calls
PlacedLines == [n \in 1..Len(placed) |-> placed[n].line]

Returned == pc \in {"resanitized", "lineShaped", "saved", "jsDone", "paginated"}

\* how far a call has come: the stage of the call first, then the raw line or
\* the paragraph of the outer loop, then the index of the inner loop
Stage ==
  CASE pc \in {"raw", "content", "jsContent", "paginate"} -> 0
    [] pc \in {"sanitized", "wrap", "words", "jsPara", "jsWrap", "jsDraw", "paginated"} -> 1
    [] pc \in {"shape", "draw", "jsDone"} -> 2
    [] pc \in {"shaped", "saved"} -> 3
    [] pc \in {"lineShaped", "resanitized"} -> 4

OuterStep == 3 * (Len(content) + 3)

WithinStage ==
  CASE pc = "shape" -> i
    [] pc = "wrap" -> rawIdx * OuterStep
    [] pc = "words" -> rawIdx * OuterStep + 1 + wordIdx
    [] pc = "draw" -> lineIdx
    [] pc = "jsPara" -> paraIdx * OuterStep
    [] pc = "jsWrap" -> paraIdx * OuterStep + 1 + wordIdx
    [] pc = "jsDraw" -> paraIdx * OuterStep + Len(content) + 3 + lineIdx
    [] pc = "paginate" -> pgIdx
    [] OTHER -> 0

StageSize == (Len(content) + 3) * OuterStep + Len(chars) + Len(raw) + geometry.count + 10

Progress == Stage * StageSize + WithinStage

\* C17: every call of the sanitizer, of the shapers, of the two layouts and of
\* the drawing loop returns a value, whatever its input: a call that has not
\* returned has a step to take, none ends in an error, and every step brings
\* the call nearer to its return, so no loop runs for ever
C17_EveryCallReturns ==
  /\ [](/\ pc = "raw" => Len(sanitizeArabicText(raw)) <= Len(raw)
        /\ pc = "sanitized" => text = sanitizeArabicText(raw)
        /\ pc = "resanitized" => again = sanitizeArabicText(text)
        /\ pc \in {"shape", "shaped"} => ENABLED NextShape
        /\ pc \in {"content", "wrap", "words", "draw"} => ENABLED NextLayout
        /\ pc \in {"jsContent", "jsPara", "jsWrap", "jsDraw"} => ENABLED NextLayout
        /\ pc = "paginate" => ENABLED NextPaginate)
  /\ [](WithinStage < StageSize)
  /\ [][Progress' > Progress]_vars

\* the shaper has returned for a string that ends with a lam, with one output
\* codepoint for the lam
C17_Witness ==
  /\ pc = "shaped"
  /\ raw # <<>> /\ chars # <<>>
  /\ chars[Len(chars)] = LAM
  /\ out # <<>> /\ out[Len(out)] \in {MAP[LAM].isolated, MAP[LAM].final}

\* ------------------------------------------------------ no state is kept
\* the result an earlier call of the run gave the function fn for the input
EarlierResults(fn, input) == {r[3] : r \in {q \in seen : q[1] = fn /\ q[2] = input}}

C19_ExportPdfAlwaysYieldsAResult ==
  /\ pc # "returned" => (result = <<>> /\ ENABLED NextExport)
  /\ pc = "returned" =>
       /\ result.filename = "basename-uuid.pdf"
       /\ result.mime = "application/pdf"
       /\ htmlPdf = "buffer" => result.base64 = "chromium"
       /\ htmlPdf = "null" =>
            (result.base64 = "pdf-lib" /\ pageNo >= 1 /\ Len(placed) = Len(wrapped))
       /\ htmlPdf \in {"buffer", "null"}
  /\ pc \in {"content", "wrap", "words", "draw", "saved"} =>
       /\ htmlPdf = "null"
       /\ fontFile = "loads" => embeddedFont
       /\ fontFile = "fails" => ~embeddedFont

\* exportPdf has returned the fallback's document after the browser was
\* launched and a later step threw, with a font that does not load
C19_Witness ==
  /\ pc = "returned"
  /\ htmlPdf = "null" /\ browserOpen
  /\ fontFile = "fails" /\ ~embeddedFont
  /\ result = PdfResult("pdf-lib")
  /\ content # <<>>

\* --------------------------------------------- the responses of the route
\* C20: POST /api/export/generate sends exactly one response per request: 400
\* 'Missing content' when content is absent or empty, 400 'Unsupported
\* format' when format is not one of txt, docx, pdf, epub, 500 when the chosen
\* exporter throws, and otherwise the result of the exporter that matches
\* format, with txt used when format is omitted
C20_OneResponsePerRequest ==
  /\ Len(responses) <= 1
  /\ pc = "responded" <=> Len(responses) = 1
  /\ pc = "responded" =>
       LET res == responses[1] IN
       IF request.content \in {"absent", "empty"}
       THEN res = ErrorResponse(400, "Missing content")
       ELSE IF request.format \in {"other"}
       THEN res = ErrorResponse(400, "Unsupported format")
       ELSE \/ res = ErrorResponse(500, "message of the exporter's error")
            \/ /\ res.status = 200
               /\ res.body.by = ExporterOf(IF request.format = "absent" THEN "txt"
                                                                       ELSE request.format)

\* ------------------------------------------------ paragraph boundaries
\* the last line that came from raw line or paragraph p
LastLineOf(p) == CHOOSE n \in LinesOf(p) : \A m \in LinesOf(p) : m <= n

RECURSIVE Paired(_, _)
Paired(s, k) ==
  IF k > Len(s) THEN <<>>
  ELSE IF IsLamAlef(s[k], CharAt(s, k + 1)) THEN <<LAM>> \o Paired(s, k + 2)
  ELSE <<s[k]>> \o Paired(s, k + 1)

\* the number of lam and alef pairs of s that are ligated
LigatedPairs(s) == Len(s) - Len(Paired(s, 1))

\* the number of tokens of s: the runs of codepoints that are not whitespace
TokenCount(s) ==
  Cardinality({k \in 1..Len(s) :
                 s[k] \notin WhiteSpace /\ (k = 1 \/ s[k - 1] \in WhiteSpace)})

\* C23: shapeArabicText never splits, merges or reorders tokens: with every
\* ligated pair counted as one codepoint the output is as long as the input,
\* holds every whitespace codepoint of the input unchanged at its place and no
\* other whitespace, so it has as many tokens as the input, and its length is
\* that of the input less the number of ligated lam-alef pairs
C23_ShapeKeepsTokens ==
  pc \in {"shaped", "lineShaped"} =>
    LET paired == Paired(chars, 1)
    IN  /\ Len(out) = Len(paired)
        /\ \A k \in 1..Len(paired) :
             /\ paired[k] \in WhiteSpace => out[k] = paired[k]
             /\ paired[k] \notin WhiteSpace => out[k] \notin WhiteSpace
        /\ TokenCount(out) = TokenCount(chars)
        /\ Len(out) = Len(chars) - LigatedPairs(chars)

\* a ligated pair, a space and another token have gone through the shaper
C23_Witness ==
  /\ pc = "shaped"
  /\ LigatedPairs(chars) = 1
  /\ TokenCount(chars) = 2
  /\ \E k \in 3..(Len(chars) - 1) : chars[k] = 32 /\ IsLamAlef(chars[k - 2], chars[k - 1])

\* ------------------------------------------------ a lam and an alef kept apart
\* s is a lam, then one or more codepoints of the three classes the sanitizer
\* removes and nothing else, then an alef variant
SeparatedLamAlef(s) ==
  /\ Len(s) >= 3
  /\ s[1] = LAM
  /\ s[Len(s)] \in AlefVariants
  /\ \A k \in 2..(Len(s) - 1) : s[k] \in DiacriticClass \cup {TATWEEL} \cup ControlClass

C29_ShapersAgree ==
  (pc = "lineShaped" /\ LigatedPairs(chars) = 0) =>
    lineOut = IF \E k \in 1..Len(chars) : isArabicLetter(chars[k])
              THEN Reverse(out) ELSE out

\* both shapers have returned for a word of a letter that joins on both sides
\* behind one that joins backwards only, with a Latin letter in the string
C29_Witness ==
  /\ pc = "lineShaped"
  /\ LigatedPairs(chars) = 0
  /\ \E k \in 2..Len(chars) : chars[k - 1] = 1583 /\ chars[k] = 1576
  /\ \E k \in 1..Len(chars) : chars[k] = 97
  /\ lineOut = Reverse(out)
  /\ lineOut # out

\* ------------------------------------------- generatePdfWithJsPdf answers
\* C30: generatePdfWithJsPdf never throws: it returns a buffer or null, null
\* only after a call into jsPDF threw; a font file that is missing or does not
\* load does not end the call, which goes on with the default font; and a
\* content without a paragraph that is not blank gives a document of one page
\* with no line
C30_JsPdfNeverThrows ==
  /\ pc \in JsPdfSteps \cup {"returned"}
  /\ pc = "returned" <=> result # <<>>
  /\ pc = "returned" => result \in {JsResult("bytes"), JsResult("null")}
  /\ pc \in JsPdfSteps \ {"jsStart"} => embeddedFont = (fontFile = "loads")
  /\ (pc = "returned" /\ result = JsResult("bytes")) =>
       /\ pageNo >= 1
       /\ embeddedFont = (fontFile = "loads")
       /\ splitParagraphs(content) = <<>> => (pageNo = 1 /\ placed = <<>>)
       /\ splitParagraphs(content) # <<>> => placed # <<>>

\* a buffer was returned for a content with lines although the font file did
\* not load
C30_Witness ==
  /\ pc = "returned"
  /\ result = JsResult("bytes")
  /\ fontFile = "fails"
  /\ Len(placed) >= 2
  /\ pageNo >= 2

\* ------------------------------------------------- the font of a request
\* the path lies in the directory dir: its first names are those of dir
InsideDir(path, dir) ==
  Len(path) > Len(dir) /\ SubSeq(path, 1, Len(dir)) = dir

\* C21: the fontPath handed to an exporter is undefined or the path of an
\* existing .ttf file inside fontsDir, whatever the font of the request is,
\* also with '..' names in it and when it leads to a directory beside
\* fontsDir whose name starts with the name of fontsDir
C21_FontPathInsideFontsDir ==
  pc = "exporting" =>
    \/ fontPath = <<>>
    \/ /\ fontPath \in ExistingPaths
       /\ EndsWithTtf(PathString(fontPath))
       /\ InsideDir(fontPath, fontsDir)

\* ------------------------------------------------ the answers of the upload
\* the answer with one result per file, in upload order: the provider's for a
\* file it read, the fallback for a file it threw on
ResultsInUploadOrder(res) ==
  /\ res.status = 200
  /\ Len(res.body.results) = Len(upload.files)
  /\ \A k \in 1..Len(upload.files) :
       /\ res.body.results[k].filename = k
       /\ upload.files[k] = "throws" =>
            (res.body.results[k].model = "fallback"
               /\ res.body.results[k].text = "OCR fallback error")
       /\ upload.files[k] = "text" =>
            res.body.results[k].model \in {"processWithGemini", "processWithMistral"}

\* a request within the limits of the route: at most 20 files, none over 25 MB
WithinLimits ==
  Len(upload.files) <= 20 /\ \A k \in 1..Len(upload.files) : upload.files[k] # "tooLarge"

\* C25 as it was stated: a request with n >= 1 files is answered with n
\* results in upload order, whatever n is, and one without files with 400
C25_NResultsForNFiles ==
  pc = "responded" =>
    /\ Len(responses) = 1
    /\ IF upload.files = <<>>
       THEN responses[1] = ErrorResponse(400, "No files uploaded")
       ELSE ResultsInUploadOrder(responses[1])

\* C25, amended: a request with 1 to maxCount files, none over the size
\* limit, is answered with one result per file in upload order, in whatever
\* order the callbacks return, the fallback for a file the provider threw on
\* and the provider's result for every other file; a request without files is
\* answered with 400; a request multer refuses gets its error and no result
C25_NResultsUpToMaxCount ==
  /\ Len(responses) <= 1
  /\ pc = "responded" <=> Len(responses) = 1
  /\ pc = "responded" =>
       IF ~WithinLimits
       THEN responses[1].status = 500 /\ upload.results = <<>>
       ELSE IF upload.files = <<>>
       THEN responses[1] = ErrorResponse(400, "No files uploaded")
       ELSE /\ ResultsInUploadOrder(responses[1])
            /\ \A k \in 1..Len(upload.files) :
                 upload.files[k] = "text" =>
                   responses[1].body.results[k].model
                     = pickProvider(upload.header, upload.configured)

\* three files, the provider threw on the second one, and the answer holds
\* the fallback between two results of the provider
C25_Witness ==
  /\ pc = "responded"
  /\ upload.files = <<"text", "throws", "text">>
  /\ responses[1].status = 200
  /\ responses[1].body.results[1].model = "processWithMistral"
  /\ responses[1].body.results[2].model = "fallback"
  /\ responses[1].body.results[3].model = "processWithMistral"

\* ------------------------------------------ the attempts of the generator
\* C26: on the serverless platform generatePdfWithChromium makes at most two
\* attempts; the second begins only after the first has failed and the pause
\* has passed; it returns the PDF of the first attempt that succeeds and null
\* when both have failed; no error leaves it
C26_AtMostTwoAttempts ==
  chromium.isVercel =>
    /\ chromium.attempt <= 2
    /\ pc # "chThrown"
    /\ chromium.attempt = 2 =>
         /\ Len(chromium.outcomes) >= 1
         /\ chromium.outcomes[1] \in {"launch", "render", "timeout", "close"}
         /\ chromium.pauses = 1
    /\ chromium.pauses = 1 => chromium.outcomes # <<>>
    /\ chromium.pauses <= 1
    /\ pc = "chReturned" =>
         /\ chromium.result \in {"pdf", "null"}
         /\ Len(chromium.outcomes) = chromium.attempt
         /\ \A k \in 1..(chromium.attempt - 1) : chromium.outcomes[k] # "pdf"
         /\ chromium.result = "pdf" <=> chromium.outcomes[chromium.attempt] = "pdf"
         /\ chromium.result = "null" => chromium.attempt = 2

\* the first attempt ran into the timeout and the second one returned the PDF
C26_Witness ==
  /\ pc = "chReturned"
  /\ chromium.isVercel
  /\ chromium.outcomes = <<"timeout", "pdf">>
  /\ chromium.result = "pdf"

\* --------------------------------------------- the browsers of the generator
\* C27: every browser the generator launched is closed when it returns,
\* after a success, after an error that follows the launch and after the
\* timeout
C27_BrowsersClosedAtReturn ==
  pc = "chReturned" => chromium.open = 0

\* ------------------------------------------------- the listener of start()
\* C28: a process has at most one listener however often start() is called;
\* the ports tried are at most five, P, P + 1, ... in this order, each one
\* after the one before it was in use; the loop stops at the first port that
\* listens and at the first error that is not EADDRINUSE
C28_OneListenerFivePorts ==
  /\ Cardinality(server.listeners) <= 1
  /\ Len(server.tried) <= 5
  /\ \A k \in 1..Len(server.tried) :
       /\ server.tried[k] = server.base + k - 1
       /\ k < Len(server.tried) => server.ports[server.tried[k]] = "inUse"
  /\ server.listeners # {} =>
       pc = "stDone" /\ server.listeners = {server.tried[Len(server.tried)]}
  /\ (server.tried # <<>> /\ server.ports[server.tried[Len(server.tried)]] # "inUse")
       => pc = "stDone"
  /\ (pc = "stDone" /\ server.listeners = {}) =>
       \/ server.ports[server.tried[Len(server.tried)]] = "denied"
       \/ Len(server.tried) = 5

\* start() was called three times; two ports were in use, the third one
\* listens and is the only listener
C28_Witness ==
  /\ server.calls = 3
  /\ Len(server.tried) = 3
  /\ server.listeners = {server.base + 2}
====
